---- MODULE Spec2Model ----
(***************************************************************************)
(* Model of the SQLite model-management store of the ArchiMate server      *)
(* (src/mcp/servers/archimate/model_db.py): the tables, the versioning     *)
(* protocol (_create_version), the optimistic-concurrency check and the    *)
(* mutating operations on models, elements and relationships.              *)
(*                                                                         *)
(* Conventions.  A Python None / SQL NULL argument is the empty tuple      *)
(* None, a supplied value v is Some(v).  A dict (attributes, tags) is a    *)
(* function from keys to values.  Dates are ISO strings compared           *)
(* lexicographically in the source; they are modelled by their rank, a     *)
(* positive integer, and NoDate stands for NULL.  CURRENT_TIMESTAMP is a   *)
(* logical clock: the number of version rows ever committed.               *)
(* `with get_connection() as connection` commits when the body returns and *)
(* rolls back when it raises, so an operation that raises leaves every     *)
(* table as it was; its outcome is recorded in `result`.                   *)
(***************************************************************************)
EXTENDS Integers, Sequences, FiniteSets, TLC

VARIABLES
    models,                       \* table models: model id -> row
    model_elements,               \* table model_elements: <<model id, id>> -> row
    model_relationships,          \* table model_relationships: <<model id, id>> -> row
    model_versions,               \* table model_versions: <<model id, version>> -> row
    model_attribute_definitions,  \* table: <<model id, target_type, key>> -> row
    model_locks,                  \* table model_locks: model id -> row
    result,                       \* what the last operation returned or raised
    pc,                           \* concurrent callers: position of each caller
    local,                        \* concurrent callers: values each caller has read
    CURRENT_MODEL                 \* server.py: the model id the tools remember

tables == <<models, model_elements, model_relationships, model_versions,
            model_attribute_definitions, model_locks>>
callers == <<pc, local>>
vars == <<models, model_elements, model_relationships, model_versions,
          model_attribute_definitions, model_locks, result, pc, local,
          CURRENT_MODEL>>

----------------------------------------------------------------------------
(* Bounds and input sets *)

MaxVersions == 3          \* version rows in the store (all models together)
MaxDefinitions == 1       \* rows in the attribute dictionary
MaxGraphVersions == 5     \* version rows in the store under SpecGraph
MaxRevertVersions == 5    \* version rows in the store under SpecRevert
MaxRevertDefinitions == 2 \* rows in the attribute dictionary under SpecRevert
MaxConcVersions == 3      \* version rows in the store under SpecConc
MaxDanglingVersions == 4  \* version rows in the store under SpecDangling
MaxSearchVersions == 4    \* version rows in the store under SpecSearch
MaxUpsertVersions == 5    \* version rows in the store under SpecUpsert
MaxUpsertDefinitions == 2 \* attribute definitions in the store under SpecUpsert
MaxTagVersions == 4       \* version rows in the store under SpecTags
MaxTagDefinitions == 2    \* attribute definitions in the store under SpecTags
MaxLockVersions == 3      \* version rows in the store under SpecLock
MaxLockConcVersions == 2  \* version rows in the store under SpecLockConc
MaxAdvisoryVersions == 3  \* version rows in the store under SpecAdvisory
MaxAdvisoryDefinitions == 1 \* attribute definitions in the store under SpecAdvisory
MaxValidateVersions == 3  \* version rows in the store under SpecValidate
MaxPathVersions == 2      \* version rows in the store under SpecPath
MaxNeighborVersions == 2  \* version rows in the store under SpecNeighbors
MaxSliceVersions == 2     \* version rows in the store under SpecSlice
MaxReportVersions == 4    \* version rows in the store under SpecReport
MaxLiveVersions == 4      \* version rows in the store under SpecLive
MaxLiveDefinitions == 1   \* attribute definitions in the store under SpecLive
MaxRaceVersions == 5      \* version rows in the store under SpecRace
MaxTagRaceVersions == 4   \* version rows in the store under SpecTagRace
MaxTagRaceDefinitions == 2 \* attribute definitions in the store under SpecTagRace
MaxManagementVersions == 4    \* version rows in the store under SpecManagement
MaxManagementDefinitions == 2 \* attribute definitions in the store under SpecManagement

ModelIds == {"m1", "m2"}
ElementIdOrder == <<"e1", "e2">>            \* ids in ORDER BY id order
RelationshipIdOrder == <<"r1", "r2">>
ElementIds == {ElementIdOrder[i] : i \in DOMAIN ElementIdOrder}
RelationshipIds == {RelationshipIdOrder[i] : i \in DOMAIN RelationshipIdOrder}
\* The ids of the graphs path_exists is asked about: e3 and r3, and the ids of a
\* chain n00 -> n01 -> ... -> n11
PathElementIdOrder == ElementIdOrder \o <<"e3">>
PathRelationshipIdOrder == RelationshipIdOrder \o <<"r3">>
ChainElementIdOrder ==
    <<"n00", "n01", "n02", "n03", "n04", "n05", "n06", "n07", "n08", "n09", "n10", "n11">>
ChainRelationshipIdOrder ==
    <<"c01", "c02", "c03", "c04", "c05", "c06", "c07", "c08", "c09", "c10", "c11">>
\* Every id a table may hold, in ORDER BY id order
StoredElementIdOrder == PathElementIdOrder \o ChainElementIdOrder
StoredRelationshipIdOrder == ChainRelationshipIdOrder \o PathRelationshipIdOrder
Authors == {"alice"}
Callers == {"A", "B"}                        \* callers of the store at the same time

None == <<>>
Some(v) == <<v>>
NoDate == 0
EmptyDict == <<>>
Dict1 == [owner |-> "ops"]

\* The content arguments of upsert_model_element
ElementPayloads ==
    { [type_name |-> "BusinessActor", name |-> "Customer", attributes |-> None,
       valid_from |-> NoDate, valid_to |-> NoDate],
      [type_name |-> "Widget", name |-> "Gadget", attributes |-> Some(Dict1),
       valid_from |-> 1, valid_to |-> 2] }

\* The content arguments of upsert_model_relationship
Serving == [type_name |-> "Serving", name |-> "", attributes |-> None,
            valid_from |-> NoDate, valid_to |-> NoDate]
Flow == [type_name |-> "Flow", name |-> "feeds", attributes |-> Some(Dict1),
         valid_from |-> 1, valid_to |-> 3]
RelationshipPayloads == {Serving, Flow}
\* A relationship without valid_from that ends at 3, and the relationships
\* validate_model is given
OpenStart == [type_name |-> "Flow", name |-> "feeds", attributes |-> None,
              valid_from |-> NoDate, valid_to |-> 3]
Wire == [type_name |-> "Wire", name |-> "", attributes |-> None,
         valid_from |-> NoDate, valid_to |-> NoDate]
ValidatedRelationshipPayloads == {Flow, OpenStart, Wire}
\* Elements of a catalogued type (in another case), with and without dates, and
\* of a type the catalog does not hold
ValidatedElementPayloads ==
    { [type_name |-> "node", name |-> "n", attributes |-> None,
       valid_from |-> NoDate, valid_to |-> NoDate],
      [type_name |-> "Node", name |-> "n", attributes |-> None,
       valid_from |-> 2, valid_to |-> 2],
      [type_name |-> "Widget", name |-> "Gadget", attributes |-> None,
       valid_from |-> NoDate, valid_to |-> 4] }

ExpectedVersions == {None, Some(1)}
TargetTypes == {"element", "relationship"}
TagKeys == {"env"}
TagValues == {"prod"}

\* The contents of the files given to import_model_csv: rows in file order
CsvElement(id, type_name) ==
    [id |-> id, type_name |-> type_name, name |-> id, attributes |-> EmptyDict,
     valid_from |-> NoDate, valid_to |-> NoDate]
CsvRelationship(id, source_element_id, target_element_id) ==
    [id |-> id, type_name |-> "Serving", source_element_id |-> source_element_id,
     target_element_id |-> target_element_id, name |-> "", attributes |-> EmptyDict,
     valid_from |-> NoDate, valid_to |-> NoDate]
\* e1 -> e2 and a self-loop on e2
CsvGraph ==
    [elements |-> <<CsvElement("e1", "BusinessActor"), CsvElement("e2", "Node")>>,
     relationships |-> <<CsvRelationship("r1", "e1", "e2"),
                         CsvRelationship("r2", "e2", "e2")>>]

\* files whose relationships name e2, which the elements file does not hold
CsvDangling ==
    [elements |-> <<CsvElement("e1", "BusinessActor")>>,
     relationships |-> <<CsvRelationship("r1", "e1", "e2"),
                         CsvRelationship("r2", "e2", "e2")>>]

\* The files of the graphs path_exists is asked about: every file of up to three
\* relationships among e1, e2 and e3 (cycles, self-loops and parallel edges
\* included), and the chain
PathNodes == {PathElementIdOrder[i] : i \in DOMAIN PathElementIdOrder}
PathRelationshipFiles ==
    UNION {{[i \in 1..n |-> CsvRelationship(PathRelationshipIdOrder[i], f[i][1], f[i][2])] :
              f \in [1..n -> PathNodes \X PathNodes]} :
           n \in 0..Len(PathRelationshipIdOrder)}
CsvChain ==
    [elements |-> [i \in DOMAIN ChainElementIdOrder |->
                      CsvElement(ChainElementIdOrder[i], "Node")],
     relationships |-> [i \in DOMAIN ChainRelationshipIdOrder |->
                           CsvRelationship(ChainRelationshipIdOrder[i],
                                           ChainElementIdOrder[i],
                                           ChainElementIdOrder[i + 1])]]
PathGraphs ==
    {[elements |-> [i \in DOMAIN PathElementIdOrder |->
                       CsvElement(PathElementIdOrder[i], "Node")],
      relationships |-> rels] : rels \in PathRelationshipFiles}
    \cup {CsvChain}
\* The payloads of the path_exists action: max_depth is None when the payload
\* has no such key
PathEndpoints == {"e1", "e2", "n00", "n10", "n11"}
PathDepths == {None, Some(0), Some(1), Some(2), Some(11)}
PathPayloads ==
    [model_id : ModelIds,
     source_element_id : {None, Some("e1"), Some("n00")},
     target_element_id : {None} \cup {Some(n) : n \in PathEndpoints},
     max_depth : PathDepths]

\* The files of the graphs neighbors is asked about: the relationship files
\* above with r3 of another type, and an elements file without e3
NeighborGraphs ==
    {[elements |-> <<CsvElement("e1", "Node"), CsvElement("e2", "Node")>>,
      relationships |-> [i \in DOMAIN rels |->
                            IF rels[i].id = "r3"
                            THEN [rels[i] EXCEPT !.type_name = "Flow"]
                            ELSE rels[i]]] : rels \in PathRelationshipFiles}
\* The payloads of the neighbors action: a field is None when the payload has
\* no such key
NeighborPayloads ==
    [model_id : ModelIds,
     element_id : {None, Some("e1")},
     direction : {None, Some("out"), Some("in"), Some("both"), Some("OUT"),
                  Some("sideways")},
     relationship_type : {None, Some("serving")},
     limit : {None, Some(1)}]

\* The files temporal_slice is asked about: e1 of a catalogued type and e2 of
\* an unknown type, r1 and r2 from e1 to e2, each with one of four validity
\* intervals (a cell left empty is stored as NULL)
SliceIntervals == {<<NoDate, NoDate>>, <<1, 2>>, <<3, NoDate>>, <<NoDate, 2>>}
Dated(row, interval) == [row EXCEPT !.valid_from = interval[1], !.valid_to = interval[2]]
SliceFiles ==
    {[elements |-> <<Dated(CsvElement("e1", "Node"), i1),
                     Dated(CsvElement("e2", "Widget"), i2)>>,
      relationships |-> <<Dated(CsvRelationship("r1", "e1", "e2"), j1),
                          Dated(CsvRelationship("r2", "e1", "e2"), j2)>>] :
        i1 \in SliceIntervals, i2 \in SliceIntervals,
        j1 \in SliceIntervals, j2 \in SliceIntervals}
\* The payloads of the temporal_slice action: a field is None when the payload
\* has no such key
SlicePayloads ==
    [model_id : ModelIds,
     valid_at : {None, Some(1), Some(3)},
     layer : {None, Some("technology")},
     element_limit : {None, Some(1)},
     relationship_limit : {None, Some(1)}]

\* The names searched for, and the elements upserted under them
SearchedNames == {"Customer", "custom", ""}
SearchPayloads ==
    {[type_name |-> "BusinessActor", name |-> n, attributes |-> None,
      valid_from |-> NoDate, valid_to |-> NoDate] : n \in SearchedNames}
\* The limit a search_elements payload carries: none (the default applies) or 1
SearchLimits == {None, Some(1)}

\* The payloads of the add_tag and remove_tag actions of archimate_model_cud:
\* "env" is the key the dictionary may define, "tier" is never defined
TriedKeys == TagKeys \cup {"tier"}
TagPayloads ==
    [model_id : {"m1"}, key : TriedKeys, value : TagValues,
     element_id : {None, Some("e1")},
     relationship_id : {None, Some("r1")},
     expected_version : ExpectedVersions, author : Authors]

\* The owners acquire_lock is called with, and the owner release_lock is
\* called with: none, the empty text, or one of them
Owners == {"ann", "bob"}
OwnersGiven == {None, Some("")} \cup {Some(o) : o \in Owners}

\* The optional fields of update_model
ModelPatches ==
    { [name |-> None, description |-> None, attributes |-> None],
      [name |-> Some("Renamed"), description |-> Some("second"), attributes |-> Some(Dict1)] }

----------------------------------------------------------------------------
(* Helpers of the store *)

\* f without the keys in S
Without(f, S) == [k \in DOMAIN f \ S |-> f[k]]

\* `x or default` for an optional argument
OrDefault(x, default) == IF x = None THEN default ELSE x[1]

\* CURRENT_TIMESTAMP, read off a logical clock that advances with every version
\* committed
CURRENT_TIMESTAMP(vers) == Cardinality(DOMAIN vers) + 1

\* The rows of one model in ORDER BY id order, each with its id
RECURSIVE RowsInOrder(_, _, _, _)
RowsInOrder(table, model_id, order, i) ==
    IF i > Len(order) THEN <<>>
    ELSE IF <<model_id, order[i]>> \in DOMAIN table
         THEN <<[id |-> order[i], row |-> table[<<model_id, order[i]>>]]>>
              \o RowsInOrder(table, model_id, order, i + 1)
         ELSE RowsInOrder(table, model_id, order, i + 1)

_ensure_model_exists(mods, model_id) == model_id \in DOMAIN mods

\* Mutant: the check is skipped (every expected_version is accepted)
_ensure_expected_version_skipped(mods, model_id, expected_version) == FALSE

\* TRUE when _ensure_expected_version raises the version conflict
_ensure_expected_version(mods, model_id, expected_version) ==
    /\ expected_version # None
    /\ expected_version[1] # mods[model_id].current_version

_snapshot(mods, elems, rels, model_id) ==
    [model |-> mods[model_id],
     elements |-> RowsInOrder(elems, model_id, StoredElementIdOrder, 1),
     relationships |-> RowsInOrder(rels, model_id, StoredRelationshipIdOrder, 1)]

\* Mutant: the version number skips one
_create_version_gap(mods, elems, rels, vers, model_id, author, message) ==
    LET next_version == mods[model_id].current_version + 2
        row == [author |-> IF author = "" THEN "system" ELSE author,
                message |-> message,
                created_at |-> CURRENT_TIMESTAMP(vers),
                snapshot |-> _snapshot(mods, elems, rels, model_id)]
    IN [ok |-> <<model_id, next_version>> \notin DOMAIN vers,
        version |-> next_version,
        versions |-> (<<model_id, next_version>> :> row) @@ vers,
        models |-> [mods EXCEPT ![model_id].current_version = next_version,
                                ![model_id].updated_at = CURRENT_TIMESTAMP(vers)]]

\* Mutant: the snapshot is read from the committed tables, not from the
\* connection that holds the change
_create_version_stale_snapshot(mods, elems, rels, vers, model_id, author, message) ==
    LET next_version == mods[model_id].current_version + 1
        row == [author |-> IF author = "" THEN "system" ELSE author,
                message |-> message,
                created_at |-> CURRENT_TIMESTAMP(vers),
                snapshot |-> _snapshot(mods, model_elements, model_relationships, model_id)]
    IN [ok |-> <<model_id, next_version>> \notin DOMAIN vers,
        version |-> next_version,
        versions |-> (<<model_id, next_version>> :> row) @@ vers,
        models |-> [mods EXCEPT ![model_id].current_version = next_version,
                                ![model_id].updated_at = CURRENT_TIMESTAMP(vers)]]

\* Mutant: once a model has history, the row of the latest version is replaced
\* (INSERT OR REPLACE under the current number) and the counter stays
_create_version_replace(mods, elems, rels, vers, model_id, author, message) ==
    LET current == mods[model_id].current_version
        next_version == IF current = 0 THEN 1 ELSE current
        row == [author |-> IF author = "" THEN "system" ELSE author,
                message |-> message,
                created_at |-> CURRENT_TIMESTAMP(vers),
                snapshot |-> _snapshot(mods, elems, rels, model_id)]
    IN [ok |-> TRUE,
        version |-> next_version,
        versions |-> (<<model_id, next_version>> :> row) @@ vers,
        models |-> [mods EXCEPT ![model_id].current_version = next_version,
                                ![model_id].updated_at = CURRENT_TIMESTAMP(vers)]]

\* _create_version on the tables as the operation has changed them so far.
\* ok is FALSE when the INSERT violates UNIQUE(model_id, version).
_create_version(mods, elems, rels, vers, model_id, author, message) ==
    LET next_version == mods[model_id].current_version + 1
        row == [author |-> IF author = "" THEN "system" ELSE author,
                message |-> message,
                created_at |-> CURRENT_TIMESTAMP(vers),
                snapshot |-> _snapshot(mods, elems, rels, model_id)]
    IN [ok |-> <<model_id, next_version>> \notin DOMAIN vers,
        version |-> next_version,
        versions |-> (<<model_id, next_version>> :> row) @@ vers,
        models |-> [mods EXCEPT ![model_id].current_version = next_version,
                                ![model_id].updated_at = CURRENT_TIMESTAMP(vers)]]

----------------------------------------------------------------------------
(* Results *)

\* op: the operation; status: "ok" or "error"; error: which error was raised;
\* outcome: the returned "status" text; version: the returned version;
\* expected, actual: the two versions a version conflict reports;
\* id: the id returned, or the id the error names; count: a returned count;
\* owner, acquired_at: the lock a lock operation reports;
\* is_valid, errors, warnings, issues: what validate_model returns
NoResult == [op |-> "none", model_id |-> "", status |-> "none", error |-> "none",
             outcome |-> "", version |-> 0, expected |-> 0, actual |-> 0,
             id |-> "", count |-> 0, owner |-> "", acquired_at |-> NoDate,
             is_valid |-> FALSE, errors |-> 0, warnings |-> 0, issues |-> <<>>,
             source |-> "", target |-> "", max_depth |-> 0,
             direction |-> "", relationship_type |-> None,
             neighbors |-> <<>>, relationships |-> <<>>,
             valid_at |-> NoDate, layer |-> None, elements |-> <<>>,
             element_limit |-> 0, relationship_limit |-> 0,
             top_connected |-> <<>>,
             exists |-> FALSE, depth |-> None, path |-> <<>>, enqueued |-> 0]

Ok(op, model_id, outcome, version, id, count) ==
    [NoResult EXCEPT !.op = op, !.model_id = model_id, !.status = "ok",
                     !.outcome = outcome,
                     !.version = version, !.id = id, !.count = count]

Raise(op, model_id, error, id) ==
    [NoResult EXCEPT !.op = op, !.model_id = model_id, !.status = "error",
                     !.error = error, !.id = id]

VersionConflict(op, model_id, expected_version, current_version) ==
    [NoResult EXCEPT !.op = op, !.model_id = model_id, !.status = "error",
                     !.error = "version_conflict",
                     !.expected = expected_version, !.actual = current_version]

\* An operation that raised: the transaction is rolled back
Failed(r) == /\ result' = r
             /\ UNCHANGED tables

\* The bounds of a run: the rows the version table and the attribute dictionary
\* may hold after a step
Bounded(max_versions, max_definitions) ==
    /\ Cardinality(DOMAIN model_versions') <= max_versions
    /\ Cardinality(DOMAIN model_attribute_definitions') <= max_definitions

----------------------------------------------------------------------------
(* Operations *)

\* Mutant: no version is written when the operation changed no row
Commit_skip_unchanged(op, model_id, mods, elems, rels, author, message, outcome, id, count) ==
    LET v == _create_version(mods, elems, rels, model_versions, model_id, author, message)
    IN IF mods = models /\ elems = model_elements /\ rels = model_relationships
       THEN /\ result' = Ok(op, model_id, outcome, models[model_id].current_version,
                            id, count)
            /\ UNCHANGED tables
       ELSE IF ~v.ok
       THEN Failed(Raise(op, model_id, "integrity_error", id))
       ELSE /\ models' = v.models
            /\ model_elements' = elems
            /\ model_relationships' = rels
            /\ model_versions' = v.versions
            /\ result' = Ok(op, model_id, outcome, v.version, id, count)
            /\ UNCHANGED <<model_attribute_definitions, model_locks>>

\* The versioned commit every mutating operation ends with: _create_version on
\* the changed tables, then connection.commit()
Commit(op, model_id, mods, elems, rels, author, message, outcome, id, count) ==
    LET v == _create_version(mods, elems, rels, model_versions, model_id, author, message)
    IN IF ~v.ok
       THEN Failed(Raise(op, model_id, "integrity_error", id))
       ELSE /\ models' = v.models
            /\ model_elements' = elems
            /\ model_relationships' = rels
            /\ model_versions' = v.versions
            /\ result' = Ok(op, model_id, outcome, v.version, id, count)
            /\ UNCHANGED <<model_attribute_definitions, model_locks>>

create_model(model_id, name, description, attributes, author) ==
    /\ IF model_id \in DOMAIN models
       THEN Failed(Raise("create_model", model_id, "already_exists", model_id))
       ELSE LET now == CURRENT_TIMESTAMP(model_versions)
                inserted == (model_id :> [id |-> model_id, name |-> name,
                                          description |-> description,
                                          attributes |-> OrDefault(attributes, EmptyDict),
                                          created_at |-> now, updated_at |-> now,
                                          current_version |-> 0]) @@ models
                v == _create_version(inserted, model_elements, model_relationships,
                                     model_versions, model_id, author, "Model created")
            IN IF ~v.ok
               THEN Failed(Raise("create_model", model_id, "integrity_error", model_id))
               ELSE /\ models' = v.models
                    /\ model_versions' = v.versions
                    /\ result' = Ok("create_model", model_id, "created", v.version, model_id, 0)
                    /\ UNCHANGED <<model_elements, model_relationships,
                                   model_attribute_definitions, model_locks>>
    /\ UNCHANGED callers

update_model(model_id, patch, expected_version, author) ==
    /\ IF ~_ensure_model_exists(models, model_id)
       THEN Failed(Raise("update_model", model_id, "model_not_found", model_id))
       ELSE IF _ensure_expected_version(models, model_id, expected_version)
       THEN Failed(VersionConflict("update_model", model_id, expected_version[1],
                                   models[model_id].current_version))
       ELSE LET old == models[model_id]
                any == patch.name # None \/ patch.description # None
                       \/ patch.attributes # None
                updated ==
                    [models EXCEPT ![model_id] =
                        [old EXCEPT !.name = OrDefault(patch.name, old.name),
                                    !.description = OrDefault(patch.description, old.description),
                                    !.attributes = OrDefault(patch.attributes, old.attributes),
                                    !.updated_at = IF any THEN CURRENT_TIMESTAMP(model_versions)
                                                   ELSE old.updated_at]]
            IN Commit("update_model", model_id, updated, model_elements,
                      model_relationships, author, "Model updated", "updated", model_id, 0)
    /\ UNCHANGED callers

\* Mutant: delete_model raises not found for an id that has no row
delete_model_strict(model_id) ==
    /\ IF model_id \notin DOMAIN models
       THEN Failed(Raise("delete_model", model_id, "model_not_found", model_id))
       ELSE /\ models' = Without(models, {model_id})
            /\ result' = Ok("delete_model", model_id, "deleted", 0, model_id, 1)
            /\ UNCHANGED <<model_elements, model_relationships, model_versions,
                           model_attribute_definitions, model_locks>>
    /\ UNCHANGED callers

\* DELETE FROM models: the connection never enables foreign keys, so the rows
\* of the other tables stay
delete_model(model_id) ==
    /\ models' = Without(models, {model_id})
    /\ result' = Ok("delete_model", model_id, "deleted", 0, model_id,
                    IF model_id \in DOMAIN models THEN 1 ELSE 0)
    /\ UNCHANGED <<model_elements, model_relationships, model_versions,
                   model_attribute_definitions, model_locks>>
    /\ UNCHANGED callers

\* INSERT OR REPLACE of upsert_model_element: tags_json and created_at are
\* COALESCEd from the row being replaced
\* Mutant: the row is written as a new row, its tags not carried over
UpsertedElementRow_without_tags(elems, vers, model_id, element_id, payload) ==
    LET key == <<model_id, element_id>>
        now == CURRENT_TIMESTAMP(vers)
    IN [type_name |-> payload.type_name,
        name |-> payload.name,
        attributes |-> OrDefault(payload.attributes, EmptyDict),
        tags |-> EmptyDict,
        valid_from |-> payload.valid_from,
        valid_to |-> payload.valid_to,
        created_at |-> IF key \in DOMAIN elems THEN elems[key].created_at ELSE now,
        updated_at |-> now]

UpsertedElementRow(elems, vers, model_id, element_id, payload) ==
    LET key == <<model_id, element_id>>
        now == CURRENT_TIMESTAMP(vers)
    IN [type_name |-> payload.type_name,
        name |-> payload.name,
        attributes |-> OrDefault(payload.attributes, EmptyDict),
        tags |-> IF key \in DOMAIN elems THEN elems[key].tags ELSE EmptyDict,
        valid_from |-> payload.valid_from,
        valid_to |-> payload.valid_to,
        created_at |-> IF key \in DOMAIN elems THEN elems[key].created_at ELSE now,
        updated_at |-> now]

\* element_id is the caller's id, or the uuid4 generated when none is supplied
\* Mutant: the upsert is refused while the model has a lock row
upsert_model_element_honouring_lock(model_id, payload, element_id, expected_version, author) ==
    /\ IF ~_ensure_model_exists(models, model_id)
       THEN Failed(Raise("upsert_model_element", model_id, "model_not_found", model_id))
       ELSE IF model_id \in DOMAIN model_locks
       THEN Failed(Raise("upsert_model_element", model_id, "locked",
                         model_locks[model_id].owner))
       ELSE IF _ensure_expected_version(models, model_id, expected_version)
       THEN Failed(VersionConflict("upsert_model_element", model_id, expected_version[1],
                                   models[model_id].current_version))
       ELSE LET key == <<model_id, element_id>>
                exists == key \in DOMAIN model_elements
                row == UpsertedElementRow(model_elements, model_versions, model_id,
                                          element_id, payload)
            IN Commit("upsert_model_element", model_id, models,
                      (key :> row) @@ model_elements, model_relationships,
                      author, "Element upserted",
                      IF exists THEN "updated" ELSE "created", element_id, 0)
    /\ UNCHANGED callers

upsert_model_element(model_id, payload, element_id, expected_version, author) ==
    /\ IF ~_ensure_model_exists(models, model_id)
       THEN Failed(Raise("upsert_model_element", model_id, "model_not_found", model_id))
       ELSE IF _ensure_expected_version(models, model_id, expected_version)
       THEN Failed(VersionConflict("upsert_model_element", model_id, expected_version[1],
                                   models[model_id].current_version))
       ELSE LET key == <<model_id, element_id>>
                exists == key \in DOMAIN model_elements
                row == UpsertedElementRow(model_elements, model_versions, model_id,
                                          element_id, payload)
            IN Commit("upsert_model_element", model_id, models,
                      (key :> row) @@ model_elements, model_relationships,
                      author, "Element upserted",
                      IF exists THEN "updated" ELSE "created", element_id, 0)
    /\ UNCHANGED callers

\* Mutant: no relationship is deleted with an element
RelationshipsOf_none(rels, model_id, element_id) == {}

\* Mutant: only the relationships leaving the element are matched
RelationshipsOf_source_only(rels, model_id, element_id) ==
    {k \in DOMAIN rels : /\ k[1] = model_id
                         /\ rels[k].source_element_id = element_id}

\* The relationships DELETEd with an element: those of the model whose source
\* or target is the element
RelationshipsOf(rels, model_id, element_id) ==
    {k \in DOMAIN rels : /\ k[1] = model_id
                         /\ \/ rels[k].source_element_id = element_id
                            \/ rels[k].target_element_id = element_id}

\* Mutant: the relationships deleted before the element was found missing stay
\* deleted
delete_model_element_partial(model_id, element_id, expected_version, author) ==
    /\ IF ~_ensure_model_exists(models, model_id)
       THEN Failed(Raise("delete_model_element", model_id, "model_not_found", model_id))
       ELSE IF _ensure_expected_version(models, model_id, expected_version)
       THEN Failed(VersionConflict("delete_model_element", model_id, expected_version[1],
                                   models[model_id].current_version))
       ELSE LET deleted == RelationshipsOf(model_relationships, model_id, element_id)
                rel_deleted == Cardinality(deleted)
                key == <<model_id, element_id>>
            IN IF key \notin DOMAIN model_elements
               THEN /\ result' = Raise("delete_model_element", model_id,
                                       "element_not_found", element_id)
                    /\ model_relationships' = Without(model_relationships, deleted)
                    /\ UNCHANGED <<models, model_elements, model_versions,
                                   model_attribute_definitions, model_locks>>
               ELSE Commit("delete_model_element", model_id, models,
                           Without(model_elements, {key}),
                           Without(model_relationships, deleted),
                           author, "Element deleted", "deleted", element_id, rel_deleted)
    /\ UNCHANGED callers

delete_model_element(model_id, element_id, expected_version, author) ==
    /\ IF ~_ensure_model_exists(models, model_id)
       THEN Failed(Raise("delete_model_element", model_id, "model_not_found", model_id))
       ELSE IF _ensure_expected_version(models, model_id, expected_version)
       THEN Failed(VersionConflict("delete_model_element", model_id, expected_version[1],
                                   models[model_id].current_version))
       ELSE LET deleted == RelationshipsOf(model_relationships, model_id, element_id)
                rel_deleted == Cardinality(deleted)
                key == <<model_id, element_id>>
            IN IF key \notin DOMAIN model_elements
               THEN Failed(Raise("delete_model_element", model_id, "element_not_found",
                                 element_id))
               ELSE Commit("delete_model_element", model_id, models,
                           Without(model_elements, {key}),
                           Without(model_relationships, deleted),
                           author, "Element deleted", "deleted", element_id, rel_deleted)
    /\ UNCHANGED callers

UpsertedRelationshipRow(rels, vers, model_id, relationship_id, source_element_id, target_element_id, payload) ==
    LET key == <<model_id, relationship_id>>
        now == CURRENT_TIMESTAMP(vers)
    IN [type_name |-> payload.type_name,
        source_element_id |-> source_element_id,
        target_element_id |-> target_element_id,
        name |-> payload.name,
        attributes |-> OrDefault(payload.attributes, EmptyDict),
        tags |-> IF key \in DOMAIN rels THEN rels[key].tags ELSE EmptyDict,
        valid_from |-> payload.valid_from,
        valid_to |-> payload.valid_to,
        created_at |-> IF key \in DOMAIN rels THEN rels[key].created_at ELSE now,
        updated_at |-> now]

\* Mutant: the target is not checked
MissingEndpoint_source_only(elems, model_id, source_element_id, target_element_id) ==
    IF <<model_id, source_element_id>> \notin DOMAIN elems THEN "source"
    ELSE "none"

\* The endpoint check of upsert_model_relationship: the endpoint it reports
\* missing, "source" before "target", or "none"
MissingEndpoint(elems, model_id, source_element_id, target_element_id) ==
    IF <<model_id, source_element_id>> \notin DOMAIN elems THEN "source"
    ELSE IF <<model_id, target_element_id>> \notin DOMAIN elems THEN "target"
    ELSE "none"

upsert_model_relationship(model_id, payload, source_element_id, target_element_id, relationship_id, expected_version, author) ==
    /\ IF ~_ensure_model_exists(models, model_id)
       THEN Failed(Raise("upsert_model_relationship", model_id, "model_not_found", model_id))
       ELSE IF _ensure_expected_version(models, model_id, expected_version)
       THEN Failed(VersionConflict("upsert_model_relationship", model_id,
                                   expected_version[1], models[model_id].current_version))
       ELSE LET missing == MissingEndpoint(model_elements, model_id,
                                           source_element_id, target_element_id)
                key == <<model_id, relationship_id>>
                exists == key \in DOMAIN model_relationships
                row == UpsertedRelationshipRow(model_relationships, model_versions,
                                               model_id, relationship_id,
                                               source_element_id, target_element_id, payload)
            IN IF missing = "source"
               THEN Failed(Raise("upsert_model_relationship", model_id,
                                 "source_not_found", source_element_id))
               ELSE IF missing = "target"
               THEN Failed(Raise("upsert_model_relationship", model_id,
                                 "target_not_found", target_element_id))
               ELSE Commit("upsert_model_relationship", model_id, models, model_elements,
                           (key :> row) @@ model_relationships,
                           author, "Relationship upserted",
                           IF exists THEN "updated" ELSE "created", relationship_id, 0)
    /\ UNCHANGED callers

delete_model_relationship(model_id, relationship_id, expected_version, author) ==
    /\ IF ~_ensure_model_exists(models, model_id)
       THEN Failed(Raise("delete_model_relationship", model_id, "model_not_found", model_id))
       ELSE IF _ensure_expected_version(models, model_id, expected_version)
       THEN Failed(VersionConflict("delete_model_relationship", model_id,
                                   expected_version[1], models[model_id].current_version))
       ELSE LET key == <<model_id, relationship_id>>
            IN IF key \notin DOMAIN model_relationships
               THEN Failed(Raise("delete_model_relationship", model_id,
                                 "relationship_not_found", relationship_id))
               ELSE Commit("delete_model_relationship", model_id, models, model_elements,
                           Without(model_relationships, {key}),
                           author, "Relationship deleted", "deleted", relationship_id, 0)
    /\ UNCHANGED callers

\* get_version: the stored row, looked up on a connection of its own
get_version(vers, model_id, version) == vers[<<model_id, version>>]

\* The version numbers stored for a model
VersionNumbers(vers, model_id) == {k[2] : k \in {x \in DOMAIN vers : x[1] = model_id}}

RECURSIVE Descending(_)
Descending(S) ==
    IF S = {} THEN <<>>
    ELSE LET top == CHOOSE x \in S : \A y \in S : y <= x
         IN <<top>> \o Descending(S \ {top})

Min(a, b) == IF a < b THEN a ELSE b
Max(a, b) == IF a > b THEN a ELSE b

\* list_versions: the version numbers ORDER BY version DESC LIMIT max(1, min(limit, 1000))
list_versions(vers, model_id, limit) ==
    LET all == Descending(VersionNumbers(vers, model_id))
    IN SubSeq(all, 1, Min(Len(all), Max(1, Min(limit, 1000))))

----------------------------------------------------------------------------
(* search_elements of archimate_model_query *)

DefaultSearchLimit == 200
MaxSearchLimit == 1000

\* lower(text), as the sequence of its characters
lower(text) ==
    CASE text = "Customer" -> <<"c", "u", "s", "t", "o", "m", "e", "r">>
      [] text = "custom" -> <<"c", "u", "s", "t", "o", "m">>
      [] text = "Gadget" -> <<"g", "a", "d", "g", "e", "t">>
      [] text = "BusinessActor" ->
             <<"b", "u", "s", "i", "n", "e", "s", "s", "a", "c", "t", "o", "r">>
      [] text = "Widget" -> <<"w", "i", "d", "g", "e", "t">>
      [] text = "Business Actor" ->
             <<"b", "u", "s", "i", "n", "e", "s", "s", " ", "a", "c", "t", "o", "r">>
      [] text = "node" -> <<"n", "o", "d", "e">>
      [] text = "Serving" -> <<"s", "e", "r", "v", "i", "n", "g">>
      [] text = "Flow" -> <<"f", "l", "o", "w">>
      [] text = "Wire" -> <<"w", "i", "r", "e">>
      [] text = "Node" -> <<"n", "o", "d", "e">>
      [] text = "e1" -> <<"e", "1">>
      [] text = "e2" -> <<"e", "2">>
      [] text = "serving" -> <<"s", "e", "r", "v", "i", "n", "g">>
      [] text = "out" -> <<"o", "u", "t">>
      [] text = "OUT" -> <<"o", "u", "t">>
      [] text = "in" -> <<"i", "n">>
      [] text = "both" -> <<"b", "o", "t", "h">>
      [] text = "sideways" -> <<"s", "i", "d", "e", "w", "a", "y", "s">>
      [] text = "Technology" -> <<"t", "e", "c", "h", "n", "o", "l", "o", "g", "y">>
      [] text = "technology" -> <<"t", "e", "c", "h", "n", "o", "l", "o", "g", "y">>
      [] text = "Business" -> <<"b", "u", "s", "i", "n", "e", "s", "s">>
      [] text = "" -> <<>>

\* lower(text) LIKE lower('%' || search || '%'), for a search without the
\* wildcards % and _
Like(text, search) ==
    LET t == lower(text)
        p == lower(search)
    IN \E i \in 1..(Len(t) + 1) :
          /\ i + Len(p) - 1 <= Len(t)
          /\ SubSeq(t, i, i + Len(p) - 1) = p

\* A WHERE clause that compares the search with me.id only
Matches_id_only(id, row, search) ==
    \/ search = None
    \/ search = Some("")
    \/ Like(id, search[1])

\* The WHERE clause of _search_elements with only `search` given; an empty
\* search adds no condition
Matches(id, row, search) ==
    \/ search = None
    \/ search = Some("")
    \/ Like(id, search[1])
    \/ Like(row.name, search[1])
    \/ Like(row.type_name, search[1])

\* limit=max(1, min(int(payload.get("limit", 200)), 1000))
SearchLimit(limit) == Max(1, Min(OrDefault(limit, DefaultSearchLimit), MaxSearchLimit))

RECURSIVE MatchingInOrder(_, _, _, _, _)
MatchingInOrder(elems, model_id, search, order, i) ==
    IF i > Len(order) THEN <<>>
    ELSE LET key == <<model_id, order[i]>>
             rest == MatchingInOrder(elems, model_id, search, order, i + 1)
         IN IF key \in DOMAIN elems /\ Matches(order[i], elems[key], search)
            THEN <<order[i]>> \o rest
            ELSE rest

\* The ids of the rows _search_elements returns: ... ORDER BY me.id LIMIT ?
_search_elements(elems, model_id, search, limit) ==
    LET all == MatchingInOrder(elems, model_id, search, ElementIdOrder, 1)
    IN SubSeq(all, 1, Min(Len(all), SearchLimit(limit)))

----------------------------------------------------------------------------
(* validate_model *)

\* The tables of the metamodel database (db.py) that hold the catalog, with
\* some of the names init_db seeds
MetamodelDb == [elements |-> {"Business Actor", "Node"},
                relationships |-> {"Serving", "Flow"}]

\* The catalog tables of the database that get_connection() of model_db opens:
\* init_model_db creates models, model_versions, model_elements,
\* model_relationships, model_attribute_definitions and model_locks, and no
\* table named elements or relationships
ModelDb == [t \in {} |-> {}]

\* SELECT name FROM <table>, lower-cased: None when the database has no such
\* table (sqlite3.OperationalError)
SelectNames(db, table) ==
    IF table \in DOMAIN db THEN Some({lower(name) : name \in db[table]}) ELSE None

Issue(severity, code, id) == [severity |-> severity, code |-> code, id |-> id]

\* A date that is None or the empty text is not compared
Truthy(date) == date # NoDate

\* The issues of one element row, in the order they are appended
ElementIssues(id, row, known_element_types) ==
    (IF lower(row.type_name) \notin known_element_types
     THEN <<Issue("error", "UNKNOWN_ELEMENT_TYPE", id)>> ELSE <<>>)
    \o (IF Truthy(row.valid_from) /\ Truthy(row.valid_to) /\ row.valid_from > row.valid_to
        THEN <<Issue("error", "INVALID_ELEMENT_TIME_RANGE", id)>> ELSE <<>>)

\* The warnings of one relationship row whose endpoints are stored and whose
\* valid_from is set
TemporalIssues(id, row, src, tgt) ==
    (IF Truthy(src.valid_from) /\ row.valid_from < src.valid_from
     THEN <<Issue("warning", "REL_BEFORE_SOURCE", id)>> ELSE <<>>)
    \o (IF Truthy(tgt.valid_from) /\ row.valid_from < tgt.valid_from
        THEN <<Issue("warning", "REL_BEFORE_TARGET", id)>> ELSE <<>>)
    \o (IF Truthy(row.valid_to) /\ Truthy(src.valid_to) /\ row.valid_to > src.valid_to
        THEN <<Issue("warning", "REL_AFTER_SOURCE", id)>> ELSE <<>>)
    \o (IF Truthy(row.valid_to) /\ Truthy(tgt.valid_to) /\ row.valid_to > tgt.valid_to
        THEN <<Issue("warning", "REL_AFTER_TARGET", id)>> ELSE <<>>)

\* The issues of one relationship row, in the order they are appended
RelationshipIssues(id, row, elems, model_id, known_relationship_types) ==
    LET src == <<model_id, row.source_element_id>>
        tgt == <<model_id, row.target_element_id>>
    IN (IF lower(row.type_name) \notin known_relationship_types
        THEN <<Issue("error", "UNKNOWN_RELATIONSHIP_TYPE", id)>> ELSE <<>>)
       \o (IF src \notin DOMAIN elems \/ tgt \notin DOMAIN elems
           THEN <<Issue("error", "MISSING_REL_ENDPOINT", id)>> ELSE <<>>)
       \o (IF Truthy(row.valid_from) /\ Truthy(row.valid_to)
                 /\ row.valid_from > row.valid_to
           THEN <<Issue("error", "INVALID_REL_TIME_RANGE", id)>> ELSE <<>>)
       \o (IF src \in DOMAIN elems /\ tgt \in DOMAIN elems /\ Truthy(row.valid_from)
           THEN TemporalIssues(id, row, elems[src], elems[tgt]) ELSE <<>>)

RECURSIVE AllElementIssues(_, _, _)
AllElementIssues(rows, i, known_element_types) ==
    IF i > Len(rows) THEN <<>>
    ELSE ElementIssues(rows[i].id, rows[i].row, known_element_types)
         \o AllElementIssues(rows, i + 1, known_element_types)

RECURSIVE AllRelationshipIssues(_, _, _, _, _)
AllRelationshipIssues(rows, i, elems, model_id, known_relationship_types) ==
    IF i > Len(rows) THEN <<>>
    ELSE RelationshipIssues(rows[i].id, rows[i].row, elems, model_id,
                            known_relationship_types)
         \o AllRelationshipIssues(rows, i + 1, elems, model_id, known_relationship_types)

\* The list `issues` that the two loops of validate_model build once the two
\* catalogs have been read
Issues(elems, rels, model_id, known_element_types, known_relationship_types) ==
    AllElementIssues(RowsInOrder(elems, model_id, ElementIdOrder, 1), 1,
                     known_element_types)
    \o AllRelationshipIssues(RowsInOrder(rels, model_id, RelationshipIdOrder, 1), 1,
                             elems, model_id, known_relationship_types)

\* The issues of a list that carry the severity
WithSeverity(issues, severity) ==
    {i \in 1..Len(issues) : issues[i].severity = severity}

\* The value validate_model returns for a list of issues
Validation(model_id, issues) ==
    LET error_count == Cardinality(WithSeverity(issues, "error"))
    IN [Ok("validate_model", model_id, "ok", 0, model_id, 0) EXCEPT
           !.is_valid = (error_count = 0),
           !.errors = error_count,
           !.warnings = Len(issues) - error_count,
           !.issues = issues]

\* validate_model reads the catalogs through db, the database of its connection
validate_model_on(db, model_id) ==
    /\ IF ~_ensure_model_exists(models, model_id)
       THEN Failed(Raise("validate_model", model_id, "model_not_found", model_id))
       ELSE IF SelectNames(db, "elements") = None
       THEN Failed(Raise("validate_model", model_id, "no_such_table", "elements"))
       ELSE IF SelectNames(db, "relationships") = None
       THEN Failed(Raise("validate_model", model_id, "no_such_table", "relationships"))
       ELSE /\ result' = Validation(model_id,
                                    Issues(model_elements, model_relationships, model_id,
                                           SelectNames(db, "elements")[1],
                                           SelectNames(db, "relationships")[1]))
            /\ UNCHANGED tables
    /\ UNCHANGED callers

validate_model(model_id) == validate_model_on(ModelDb, model_id)

\* The rows revert_to_version INSERTs from a snapshot list: id, type_name, name,
\* attributes, valid_from, valid_to (and the endpoints of a relationship); the
\* columns it does not name take their defaults (tags_json '{}', the timestamps
\* CURRENT_TIMESTAMP)
RevertedElementRow(r, now) ==
    [type_name |-> r.type_name, name |-> r.name, attributes |-> r.attributes,
     tags |-> EmptyDict, valid_from |-> r.valid_from, valid_to |-> r.valid_to,
     created_at |-> now, updated_at |-> now]

RevertedRelationshipRow(r, now) ==
    [type_name |-> r.type_name, source_element_id |-> r.source_element_id,
     target_element_id |-> r.target_element_id, name |-> r.name,
     attributes |-> r.attributes, tags |-> EmptyDict,
     valid_from |-> r.valid_from, valid_to |-> r.valid_to,
     created_at |-> now, updated_at |-> now]

\* The table after DELETE ... WHERE model_id = ?
WithoutModel(table, model_id) == Without(table, {k \in DOMAIN table : k[1] = model_id})

revert_to_version(model_id, version, expected_version, author) ==
    /\ IF ~_ensure_model_exists(models, model_id)
       THEN Failed(Raise("revert_to_version", model_id, "model_not_found", model_id))
       ELSE IF _ensure_expected_version(models, model_id, expected_version)
       THEN Failed(VersionConflict("revert_to_version", model_id, expected_version[1],
                                   models[model_id].current_version))
       ELSE IF <<model_id, version>> \notin DOMAIN model_versions
       THEN Failed(Raise("revert_to_version", model_id, "version_not_found", model_id))
       ELSE LET snapshot == get_version(model_versions, model_id, version).snapshot
                now == CURRENT_TIMESTAMP(model_versions)
                mods == [models EXCEPT ![model_id].name = snapshot.model.name,
                                       ![model_id].description = snapshot.model.description,
                                       ![model_id].attributes = snapshot.model.attributes,
                                       ![model_id].updated_at = now]
                elems == [i \in DOMAIN snapshot.elements |->
                             RevertedElementRow(snapshot.elements[i].row, now)]
                rels == [i \in DOMAIN snapshot.relationships |->
                             RevertedRelationshipRow(snapshot.relationships[i].row, now)]
                inserted_elements ==
                    [k \in {<<model_id, snapshot.elements[i].id>> :
                                i \in DOMAIN snapshot.elements} |->
                        elems[CHOOSE i \in DOMAIN snapshot.elements :
                                  snapshot.elements[i].id = k[2]]]
                inserted_relationships ==
                    [k \in {<<model_id, snapshot.relationships[i].id>> :
                                i \in DOMAIN snapshot.relationships} |->
                        rels[CHOOSE i \in DOMAIN snapshot.relationships :
                                 snapshot.relationships[i].id = k[2]]]
            IN Commit("revert_to_version", model_id, mods,
                      inserted_elements @@ WithoutModel(model_elements, model_id),
                      inserted_relationships @@ WithoutModel(model_relationships, model_id),
                      author, "Reverted to version " \o ToString(version),
                      "reverted", model_id, version)
    /\ UNCHANGED callers

\* The rows import_model_csv INSERTs OR REPLACEs, in file order; a row replaces
\* the whole stored row, so tags_json and created_at take their defaults
ImportedElementRow(r, now) ==
    [type_name |-> r.type_name, name |-> r.name, attributes |-> r.attributes,
     tags |-> EmptyDict, valid_from |-> r.valid_from, valid_to |-> r.valid_to,
     created_at |-> now, updated_at |-> now]

ImportedRelationshipRow(r, now) ==
    [type_name |-> r.type_name, source_element_id |-> r.source_element_id,
     target_element_id |-> r.target_element_id, name |-> r.name,
     attributes |-> r.attributes, tags |-> EmptyDict,
     valid_from |-> r.valid_from, valid_to |-> r.valid_to,
     created_at |-> now, updated_at |-> now]

RECURSIVE ImportElements(_, _, _, _, _)
ImportElements(elems, model_id, rows, i, now) ==
    IF i > Len(rows) THEN elems
    ELSE ImportElements((<<model_id, rows[i].id>> :> ImportedElementRow(rows[i], now))
                            @@ elems, model_id, rows, i + 1, now)

RECURSIVE ImportRelationships(_, _, _, _, _)
ImportRelationships(rels, model_id, rows, i, now) ==
    IF i > Len(rows) THEN rels
    ELSE ImportRelationships((<<model_id, rows[i].id>> :> ImportedRelationshipRow(rows[i], now))
                                 @@ rels, model_id, rows, i + 1, now)

import_model_csv(model_id, elements_csv, relationships_csv, replace, expected_version, author) ==
    /\ IF ~_ensure_model_exists(models, model_id)
       THEN Failed(Raise("import_model_csv", model_id, "model_not_found", model_id))
       ELSE IF _ensure_expected_version(models, model_id, expected_version)
       THEN Failed(VersionConflict("import_model_csv", model_id, expected_version[1],
                                   models[model_id].current_version))
       ELSE LET now == CURRENT_TIMESTAMP(model_versions)
                kept_relationships == IF replace
                                      THEN WithoutModel(model_relationships, model_id)
                                      ELSE model_relationships
                kept_elements == IF replace THEN WithoutModel(model_elements, model_id)
                                 ELSE model_elements
            IN Commit("import_model_csv", model_id, models,
                      ImportElements(kept_elements, model_id, elements_csv, 1, now),
                      ImportRelationships(kept_relationships, model_id,
                                          relationships_csv, 1, now),
                      author, "Model imported from CSV", "imported", model_id,
                      Len(elements_csv))
    /\ UNCHANGED callers

----------------------------------------------------------------------------
(* Attribute dictionary and tags *)

define_attribute(model_id, target_type, key, description, is_tag) ==
    /\ model_attribute_definitions' =
           (<<model_id, target_type, key>> :> [description |-> description,
                                               is_tag |-> is_tag])
               @@ model_attribute_definitions
    /\ result' = Ok("define_attribute", model_id, "ok", 0, key, 0)
    /\ UNCHANGED <<models, model_elements, model_relationships, model_versions,
                   model_locks>>
    /\ UNCHANGED callers

\* Mutant: the key is looked up without the target type
_resolve_tag_key_any_target(defs, model_id, target_type, key) ==
    \E t \in TargetTypes :
       /\ <<model_id, t, key>> \in DOMAIN defs
       /\ defs[<<model_id, t, key>>].is_tag

\* TRUE when _resolve_tag_key finds the key defined with is_tag = 1
_resolve_tag_key(defs, model_id, target_type, key) ==
    /\ <<model_id, target_type, key>> \in DOMAIN defs
    /\ defs[<<model_id, target_type, key>>].is_tag

add_element_tag(model_id, element_id, key, value, author) ==
    /\ IF ~_ensure_model_exists(models, model_id)
       THEN Failed(Raise("add_element_tag", model_id, "model_not_found", model_id))
       ELSE IF ~_resolve_tag_key(model_attribute_definitions, model_id, "element", key)
       THEN Failed(Raise("add_element_tag", model_id, "invalid_tag_key", key))
       ELSE IF <<model_id, element_id>> \notin DOMAIN model_elements
       THEN Failed(Raise("add_element_tag", model_id, "element_not_found", element_id))
       ELSE LET k == <<model_id, element_id>>
                tags == (key :> value) @@ model_elements[k].tags
            IN Commit("add_element_tag", model_id, models,
                      [model_elements EXCEPT
                          ![k].tags = tags,
                          ![k].updated_at = CURRENT_TIMESTAMP(model_versions)],
                      model_relationships, author, "Tag added", "ok", element_id, 0)
    /\ UNCHANGED callers

\* Mutant: the whole tag map is dropped
remove_element_tag_clears(model_id, element_id, key, author) ==
    /\ IF ~_ensure_model_exists(models, model_id)
       THEN Failed(Raise("remove_element_tag", model_id, "model_not_found", model_id))
       ELSE IF <<model_id, element_id>> \notin DOMAIN model_elements
       THEN Failed(Raise("remove_element_tag", model_id, "element_not_found", element_id))
       ELSE LET k == <<model_id, element_id>>
            IN Commit("remove_element_tag", model_id, models,
                      [model_elements EXCEPT
                          ![k].tags = EmptyDict,
                          ![k].updated_at = CURRENT_TIMESTAMP(model_versions)],
                      model_relationships, author, "Tag removed", "ok", element_id, 0)
    /\ UNCHANGED callers

remove_element_tag(model_id, element_id, key, author) ==
    /\ IF ~_ensure_model_exists(models, model_id)
       THEN Failed(Raise("remove_element_tag", model_id, "model_not_found", model_id))
       ELSE IF <<model_id, element_id>> \notin DOMAIN model_elements
       THEN Failed(Raise("remove_element_tag", model_id, "element_not_found", element_id))
       ELSE LET k == <<model_id, element_id>>
                tags == Without(model_elements[k].tags, {key})
            IN Commit("remove_element_tag", model_id, models,
                      [model_elements EXCEPT
                          ![k].tags = tags,
                          ![k].updated_at = CURRENT_TIMESTAMP(model_versions)],
                      model_relationships, author, "Tag removed", "ok", element_id, 0)
    /\ UNCHANGED callers

add_relationship_tag(model_id, relationship_id, key, value, author) ==
    /\ IF ~_ensure_model_exists(models, model_id)
       THEN Failed(Raise("add_relationship_tag", model_id, "model_not_found", model_id))
       ELSE IF ~_resolve_tag_key(model_attribute_definitions, model_id, "relationship", key)
       THEN Failed(Raise("add_relationship_tag", model_id, "invalid_tag_key", key))
       ELSE IF <<model_id, relationship_id>> \notin DOMAIN model_relationships
       THEN Failed(Raise("add_relationship_tag", model_id, "relationship_not_found",
                         relationship_id))
       ELSE LET k == <<model_id, relationship_id>>
                tags == (key :> value) @@ model_relationships[k].tags
            IN Commit("add_relationship_tag", model_id, models, model_elements,
                      [model_relationships EXCEPT
                          ![k].tags = tags,
                          ![k].updated_at = CURRENT_TIMESTAMP(model_versions)],
                      author, "Tag added", "ok", relationship_id, 0)
    /\ UNCHANGED callers

remove_relationship_tag(model_id, relationship_id, key, author) ==
    /\ IF ~_ensure_model_exists(models, model_id)
       THEN Failed(Raise("remove_relationship_tag", model_id, "model_not_found", model_id))
       ELSE IF <<model_id, relationship_id>> \notin DOMAIN model_relationships
       THEN Failed(Raise("remove_relationship_tag", model_id, "relationship_not_found",
                         relationship_id))
       ELSE LET k == <<model_id, relationship_id>>
                tags == Without(model_relationships[k].tags, {key})
            IN Commit("remove_relationship_tag", model_id, models, model_elements,
                      [model_relationships EXCEPT
                          ![k].tags = tags,
                          ![k].updated_at = CURRENT_TIMESTAMP(model_versions)],
                      author, "Tag removed", "ok", relationship_id, 0)
    /\ UNCHANGED callers

\* The add_tag action of archimate_model_cud: the payload's expected_version
\* is not read
add_tag(payload) ==
    LET has_element == payload.element_id # None
        has_relationship == payload.relationship_id # None
    IN IF ~has_element /\ ~has_relationship
       THEN Failed(Raise("add_tag", payload.model_id, "missing_target", ""))
            /\ UNCHANGED callers
       ELSE IF has_element /\ has_relationship
       THEN Failed(Raise("add_tag", payload.model_id, "ambiguous_target", ""))
            /\ UNCHANGED callers
       ELSE IF has_element
       THEN add_element_tag(payload.model_id, payload.element_id[1], payload.key,
                            payload.value, payload.author)
       ELSE add_relationship_tag(payload.model_id, payload.relationship_id[1],
                                 payload.key, payload.value, payload.author)

\* The remove_tag action of archimate_model_cud: the payload's expected_version
\* and value are not read
remove_tag(payload) ==
    LET has_element == payload.element_id # None
        has_relationship == payload.relationship_id # None
    IN IF ~has_element /\ ~has_relationship
       THEN Failed(Raise("remove_tag", payload.model_id, "missing_target", ""))
            /\ UNCHANGED callers
       ELSE IF has_element /\ has_relationship
       THEN Failed(Raise("remove_tag", payload.model_id, "ambiguous_target", ""))
            /\ UNCHANGED callers
       ELSE IF has_element
       THEN remove_element_tag(payload.model_id, payload.element_id[1], payload.key,
                               payload.author)
       ELSE remove_relationship_tag(payload.model_id, payload.relationship_id[1],
                                    payload.key, payload.author)

----------------------------------------------------------------------------
(* Locks *)

LockResult(op, model_id, outcome, owner, acquired_at) ==
    [NoResult EXCEPT !.op = op, !.model_id = model_id, !.status = "ok",
                     !.outcome = outcome, !.owner = owner,
                     !.acquired_at = acquired_at]

\* Mutant: the holder's own call writes the lock row again
acquire_lock_again(model_id, owner, force) ==
    /\ IF ~_ensure_model_exists(models, model_id)
       THEN Failed(Raise("acquire_lock", model_id, "model_not_found", model_id))
       ELSE IF /\ model_id \in DOMAIN model_locks
               /\ model_locks[model_id].owner # owner
               /\ ~force
       THEN Failed(Raise("acquire_lock", model_id, "locked",
                         model_locks[model_id].owner))
       ELSE LET now == CURRENT_TIMESTAMP(model_versions)
            IN /\ model_locks' = (model_id :> [owner |-> owner, acquired_at |-> now])
                                     @@ model_locks
               /\ result' = LockResult("acquire_lock", model_id, "locked", owner, now)
               /\ UNCHANGED <<models, model_elements, model_relationships,
                              model_versions, model_attribute_definitions>>
    /\ UNCHANGED callers

acquire_lock(model_id, owner, force) ==
    /\ IF ~_ensure_model_exists(models, model_id)
       THEN Failed(Raise("acquire_lock", model_id, "model_not_found", model_id))
       ELSE IF /\ model_id \in DOMAIN model_locks
               /\ model_locks[model_id].owner = owner
       THEN /\ result' = LockResult("acquire_lock", model_id, "already_locked", owner,
                                    model_locks[model_id].acquired_at)
            /\ UNCHANGED tables
       ELSE IF model_id \in DOMAIN model_locks /\ ~force
       THEN Failed(Raise("acquire_lock", model_id, "locked",
                         model_locks[model_id].owner))
       ELSE LET now == CURRENT_TIMESTAMP(model_versions)
            IN /\ model_locks' = (model_id :> [owner |-> owner, acquired_at |-> now])
                                     @@ Without(model_locks, {model_id})
               /\ result' = LockResult("acquire_lock", model_id, "locked", owner, now)
               /\ UNCHANGED <<models, model_elements, model_relationships,
                              model_versions, model_attribute_definitions>>
    /\ UNCHANGED callers

\* Mutant: the owner is compared with the holder even when it is the empty text
release_lock_strict(model_id, owner, force) ==
    /\ IF ~_ensure_model_exists(models, model_id)
       THEN Failed(Raise("release_lock", model_id, "model_not_found", model_id))
       ELSE IF model_id \notin DOMAIN model_locks
       THEN /\ result' = LockResult("release_lock", model_id, "not_locked", "", NoDate)
            /\ UNCHANGED tables
       ELSE IF /\ ~force
               /\ owner # None
               /\ owner[1] # model_locks[model_id].owner
       THEN Failed(Raise("release_lock", model_id, "lock_owner_mismatch",
                         model_locks[model_id].owner))
       ELSE /\ model_locks' = Without(model_locks, {model_id})
            /\ result' = LockResult("release_lock", model_id, "released",
                                    model_locks[model_id].owner, NoDate)
            /\ UNCHANGED <<models, model_elements, model_relationships,
                           model_versions, model_attribute_definitions>>
    /\ UNCHANGED callers

\* `owner` is None or the empty text when the caller names no owner
release_lock(model_id, owner, force) ==
    /\ IF ~_ensure_model_exists(models, model_id)
       THEN Failed(Raise("release_lock", model_id, "model_not_found", model_id))
       ELSE IF model_id \notin DOMAIN model_locks
       THEN /\ result' = LockResult("release_lock", model_id, "not_locked", "", NoDate)
            /\ UNCHANGED tables
       ELSE IF /\ ~force
               /\ owner # None /\ owner # Some("")
               /\ owner[1] # model_locks[model_id].owner
       THEN Failed(Raise("release_lock", model_id, "lock_owner_mismatch",
                         model_locks[model_id].owner))
       ELSE /\ model_locks' = Without(model_locks, {model_id})
            /\ result' = LockResult("release_lock", model_id, "released",
                                    model_locks[model_id].owner, NoDate)
            /\ UNCHANGED <<models, model_elements, model_relationships,
                           model_versions, model_attribute_definitions>>
    /\ UNCHANGED callers

\* What get_lock returns
get_lock(mods, locks, model_id) ==
    IF ~_ensure_model_exists(mods, model_id)
    THEN [model_id |-> model_id, error |-> "model_not_found"]
    ELSE IF model_id \notin DOMAIN locks
    THEN [model_id |-> model_id, locked |-> FALSE]
    ELSE [model_id |-> model_id, locked |-> TRUE, owner |-> locks[model_id].owner,
          acquired_at |-> locks[model_id].acquired_at]

----------------------------------------------------------------------------
(* path_exists (archimate_model_query) *)

DefaultMaxDepth == 5
LeastMaxDepth == 1
GreatestMaxDepth == 10

\* Mutant: max_depth is not capped
ClampDepth_uncapped(max_depth) == Max(LeastMaxDepth, max_depth)

\* max(1, min(int(max_depth), 10))
ClampDepth(max_depth) == Max(LeastMaxDepth, Min(max_depth, GreatestMaxDepth))

\* _model_exists: SELECT 1 FROM models WHERE id = ?
_model_exists(mods, model_id) == model_id \in DOMAIN mods

\* Every order of the members of a set
RECURSIVE Orderings(_)
Orderings(S) ==
    IF S = {} THEN {<<>>}
    ELSE UNION {{<<x>> \o o : o \in Orderings(S \ {x})} : x \in S}

\* One row of SELECT source_element_id, target_element_id, type_name
Edge(rels, key) ==
    <<rels[key].source_element_id, rels[key].target_element_id, rels[key].type_name>>

\* The SELECT has no ORDER BY, so fetchall may give the rows in any order. The
\* search reads a node's rows as a list of their own, so only the order among
\* the rows of one source matters: the orders drawn are every order of each
\* source's rows, source after source
RECURSIVE RowOrdersFrom(_, _, _)
RowOrdersFrom(rels, keys, sources) ==
    IF sources = {} THEN {<<>>}
    ELSE LET s == CHOOSE x \in sources : TRUE
             own == {k \in keys : rels[k].source_element_id = s}
         IN {[i \in DOMAIN o |-> Edge(rels, o[i])] \o rest :
                o \in Orderings(own),
                rest \in RowOrdersFrom(rels, keys, sources \ {s})}

SelectEdges(rels, model_id) ==
    LET keys == {k \in DOMAIN rels : k[1] = model_id}
    IN RowOrdersFrom(rels, keys, {rels[k].source_element_id : k \in keys})

\* graph.setdefault(source_id, []).append((target_id, rel_type)), row after row
RECURSIVE BuildGraph(_, _, _)
BuildGraph(edges, i, graph) ==
    IF i > Len(edges) THEN graph
    ELSE LET source_id == edges[i][1]
             prior == IF source_id \in DOMAIN graph THEN graph[source_id] ELSE <<>>
         IN BuildGraph(edges, i + 1,
                       (source_id :> Append(prior, <<edges[i][2], edges[i][3]>>)) @@ graph)

\* graph.get(node, [])
Neighbours(graph, node) == IF node \in DOMAIN graph THEN graph[node] ELSE <<>>

\* Mutant: no search state counts as visited
Seen_never(next_state, visited) == FALSE

\* next_state in visited
Seen(next_state, visited) == next_state \in visited

\* The for loop over the edges of the node taken from the queue. s holds the
\* queue, the visited set and the number of search states enqueued so far
RECURSIVE Expand(_, _, _, _)
Expand(adjacent, i, head, s) ==
    IF i > Len(adjacent) THEN s
    ELSE LET next_node == adjacent[i][1]
             rel_type == adjacent[i][2]
             next_state == <<next_node, head.depth + 1>>
         IN IF Seen(next_state, s.visited)
            THEN Expand(adjacent, i + 1, head, s)
            ELSE Expand(adjacent, i + 1, head,
                        [queue |-> Append(s.queue,
                                          [node |-> next_node, depth |-> head.depth + 1,
                                           path |-> Append(head.path,
                                                           [from |-> head.node,
                                                            to |-> next_node,
                                                            relationship_type |-> rel_type])]),
                         visited |-> s.visited \cup {next_state},
                         enqueued |-> s.enqueued + 1])

\* Mutant: the node taken from the queue is not compared with the target
AtTarget_never(node, target) == FALSE

\* node == target
AtTarget(node, target) == node = target

\* The while loop: one turn per node taken from the queue
RECURSIVE Search(_, _, _, _)
Search(graph, target, max_depth, s) ==
    IF s.queue = <<>>
    THEN [exists |-> FALSE, depth |-> None, path |-> <<>>, enqueued |-> s.enqueued]
    ELSE LET head == Head(s.queue)
             rest == [s EXCEPT !.queue = Tail(s.queue)]
         IN IF AtTarget(head.node, target)
            THEN [exists |-> TRUE, depth |-> Some(head.depth), path |-> head.path,
                  enqueued |-> s.enqueued]
            ELSE IF head.depth >= max_depth
            THEN Search(graph, target, max_depth, rest)
            ELSE Search(graph, target, max_depth,
                        Expand(Neighbours(graph, head.node), 1, head, rest))

\* _path_exists on the rows fetched, with the number of search states enqueued
_path_exists(edges, source, target, max_depth) ==
    Search(BuildGraph(edges, 1, <<>>), target, ClampDepth(max_depth),
           [queue |-> <<[node |-> source, depth |-> 0, path |-> <<>>]>>,
            visited |-> {<<source, 0>>}, enqueued |-> 1])

\* The path_exists action of archimate_model_query, for a payload that names
\* its model. The result keeps the arguments _path_exists was called with
path_exists(payload) ==
    /\ IF ~_model_exists(models, payload.model_id)
       THEN Failed(Raise("path_exists", payload.model_id, "model_not_found",
                         payload.model_id))
       ELSE IF payload.source_element_id = None
       THEN Failed(Raise("path_exists", payload.model_id, "missing_field",
                         "source_element_id"))
       ELSE IF payload.target_element_id = None
       THEN Failed(Raise("path_exists", payload.model_id, "missing_field",
                         "target_element_id"))
       ELSE /\ \E edges \in SelectEdges(model_relationships, payload.model_id) :
                  LET source == payload.source_element_id[1]
                      target == payload.target_element_id[1]
                      max_depth == IF payload.max_depth = None THEN DefaultMaxDepth
                                   ELSE payload.max_depth[1]
                      found == _path_exists(edges, source, target, max_depth)
                  IN result' = [NoResult EXCEPT !.op = "path_exists",
                                                !.model_id = payload.model_id,
                                                !.status = "ok",
                                                !.source = source,
                                                !.target = target,
                                                !.max_depth = max_depth,
                                                !.exists = found.exists,
                                                !.depth = found.depth,
                                                !.path = found.path,
                                                !.enqueued = found.enqueued]
            /\ UNCHANGED tables
    /\ UNCHANGED callers

----------------------------------------------------------------------------
(* neighbors (archimate_model_query) *)

\* The WHERE clause direction.lower() selects: out reads the source, in reads
\* the target, anything else reads both
DirectionMatches(row, element_id, direction) ==
    IF lower(direction) = lower("out") THEN row.source_element_id = element_id
    ELSE IF lower(direction) = lower("in") THEN row.target_element_id = element_id
    ELSE row.source_element_id = element_id \/ row.target_element_id = element_id

\* AND lower(type_name) = lower(?), added when relationship_type is truthy
TypeMatches(row, relationship_type) ==
    \/ relationship_type = None
    \/ relationship_type = Some("")
    \/ lower(row.type_name) = lower(relationship_type[1])

\* The ids of the rows the SELECT on model_relationships gives, ORDER BY id
RECURSIVE NeighborRelationships(_, _, _, _, _, _, _)
NeighborRelationships(rels, model_id, element_id, direction, relationship_type, order, i) ==
    IF i > Len(order) THEN <<>>
    ELSE LET key == <<model_id, order[i]>>
             rest == NeighborRelationships(rels, model_id, element_id, direction,
                                           relationship_type, order, i + 1)
         IN IF /\ key \in DOMAIN rels
               /\ TypeMatches(rels[key], relationship_type)
               /\ DirectionMatches(rels[key], element_id, direction)
            THEN <<order[i]>> \o rest
            ELSE rest

\* Mutant: both ends of a relationship are taken as neighbours
NeighborEnds_with_origin(row, element_id) ==
    {row.source_element_id, row.target_element_id}

\* What one relationship adds to neighbor_ids: each end that is not element_id
NeighborEnds(row, element_id) ==
    {row.source_element_id, row.target_element_id} \ {element_id}

\* The ids of SELECT * FROM model_elements WHERE ... id IN (...) ORDER BY id
RECURSIVE ElementsAmong(_, _, _, _, _)
ElementsAmong(elems, model_id, ids, order, i) ==
    IF i > Len(order) THEN <<>>
    ELSE LET rest == ElementsAmong(elems, model_id, ids, order, i + 1)
         IN IF <<model_id, order[i]>> \in DOMAIN elems /\ order[i] \in ids
            THEN <<order[i]>> \o rest
            ELSE rest

\* _neighbors: the ids of the relationships and of the neighbour elements
_neighbors(elems, rels, model_id, element_id, direction, relationship_type, limit) ==
    LET all == NeighborRelationships(rels, model_id, element_id, direction,
                                     relationship_type, StoredRelationshipIdOrder, 1)
        relationships == SubSeq(all, 1, Min(Len(all), limit))
        neighbor_ids == UNION {NeighborEnds(rels[<<model_id, relationships[i]>>], element_id) :
                                  i \in DOMAIN relationships}
    IN [neighbors |-> ElementsAmong(elems, model_id, neighbor_ids, StoredElementIdOrder, 1),
        relationships |-> relationships]

\* The neighbors action of archimate_model_query, for a payload that names its
\* model. The result keeps the element, the direction, the type and the limit
\* asked for
neighbors(payload) ==
    /\ IF ~_model_exists(models, payload.model_id)
       THEN Failed(Raise("neighbors", payload.model_id, "model_not_found",
                         payload.model_id))
       ELSE IF payload.element_id = None
       THEN Failed(Raise("neighbors", payload.model_id, "missing_field", "element_id"))
       ELSE LET direction == OrDefault(payload.direction, "both")
                limit == SearchLimit(payload.limit)
                found == _neighbors(model_elements, model_relationships, payload.model_id,
                                    payload.element_id[1], direction,
                                    payload.relationship_type, limit)
            IN /\ result' = [NoResult EXCEPT !.op = "neighbors",
                                             !.model_id = payload.model_id,
                                             !.status = "ok",
                                             !.id = payload.element_id[1],
                                             !.direction = direction,
                                             !.relationship_type = payload.relationship_type,
                                             !.count = limit,
                                             !.neighbors = found.neighbors,
                                             !.relationships = found.relationships]
               /\ UNCHANGED tables
    /\ UNCHANGED callers

----------------------------------------------------------------------------
(* temporal_slice (archimate_model_query) *)

DefaultSliceLimit == 1000
MaxSliceLimit == 2000

\* max(1, min(int(payload.get("element_limit", 1000)), 2000)), and the same for
\* relationship_limit
SliceLimit(limit) == Max(1, Min(OrDefault(limit, DefaultSliceLimit), MaxSliceLimit))

\* e.layer of the LEFT JOIN with metamodel.elements, which the query attaches:
\* the layer of the catalogued name equal to type_name up to case, '' (COALESCE)
\* when the catalog has none
MetamodelLayers == [n \in MetamodelDb.elements |->
                      IF n = "Node" THEN "Technology" ELSE "Business"]
LayerOf(type_name) ==
    LET named == {n \in DOMAIN MetamodelLayers : lower(n) = lower(type_name)}
    IN IF named = {} THEN "" ELSE MetamodelLayers[CHOOSE n \in named : TRUE]

\* Mutant: only the start of the validity interval is compared
ValidAt_started(row, valid_at) ==
    row.valid_from = NoDate \/ row.valid_from <= valid_at

\* (valid_from IS NULL OR valid_from <= ?) AND (valid_to IS NULL OR valid_to >= ?)
ValidAt(row, valid_at) ==
    /\ row.valid_from = NoDate \/ row.valid_from <= valid_at
    /\ row.valid_to = NoDate \/ row.valid_to >= valid_at

\* AND lower(COALESCE(e.layer, '')) = lower(?), added when layer is truthy
InLayer(row, layer) ==
    \/ layer = None
    \/ layer = Some("")
    \/ lower(LayerOf(row.type_name)) = lower(layer[1])

\* The ids of the rows of a table that pass a test, ORDER BY id
RECURSIVE SliceRows(_, _, _, _, _, _)
SliceRows(table, model_id, layer, valid_at, order, i) ==
    IF i > Len(order) THEN <<>>
    ELSE LET key == <<model_id, order[i]>>
             rest == SliceRows(table, model_id, layer, valid_at, order, i + 1)
         IN IF /\ key \in DOMAIN table
               /\ InLayer(table[key], layer)
               /\ ValidAt(table[key], valid_at)
            THEN <<order[i]>> \o rest
            ELSE rest

\* _search_elements as temporal_slice calls it: layer and valid_at, LIMIT ?
SliceElements(elems, model_id, layer, valid_at, limit) ==
    LET all == SliceRows(elems, model_id, layer, valid_at, StoredElementIdOrder, 1)
    IN SubSeq(all, 1, Min(Len(all), limit))

\* _search_relationships as temporal_slice calls it: valid_at, LIMIT ?
SliceRelationships(rels, model_id, valid_at, limit) ==
    LET all == SliceRows(rels, model_id, None, valid_at, StoredRelationshipIdOrder, 1)
    IN SubSeq(all, 1, Min(Len(all), limit))

\* The temporal_slice action of archimate_model_query, for a payload that names
\* its model. The result keeps the date, the layer and the limits asked for
temporal_slice(payload) ==
    /\ IF ~_model_exists(models, payload.model_id)
       THEN Failed(Raise("temporal_slice", payload.model_id, "model_not_found",
                         payload.model_id))
       ELSE IF payload.valid_at = None
       THEN Failed(Raise("temporal_slice", payload.model_id, "missing_field", "valid_at"))
       ELSE LET valid_at == payload.valid_at[1]
                element_limit == SliceLimit(payload.element_limit)
                relationship_limit == SliceLimit(payload.relationship_limit)
            IN /\ result' = [NoResult EXCEPT
                                !.op = "temporal_slice",
                                !.model_id = payload.model_id,
                                !.status = "ok",
                                !.valid_at = valid_at,
                                !.layer = payload.layer,
                                !.element_limit = element_limit,
                                !.relationship_limit = relationship_limit,
                                !.elements = SliceElements(model_elements, payload.model_id,
                                                           payload.layer, valid_at,
                                                           element_limit),
                                !.relationships = SliceRelationships(model_relationships,
                                                                     payload.model_id, valid_at,
                                                                     relationship_limit)]
               /\ UNCHANGED tables
    /\ UNCHANGED callers

----------------------------------------------------------------------------
(* generate_report *)

TopConnectedLimit == 10

\* degree: 0 for every element of the model, plus 1 for each relationship row
\* that names the element as its source and 1 for each that names it as target
Degree(rels, model_id, id) ==
    Cardinality({k \in DOMAIN rels :
                    k[1] = model_id /\ rels[k].source_element_id = id})
    + Cardinality({k \in DOMAIN rels :
                      k[1] = model_id /\ rels[k].target_element_id = id})

\* The place of an id in ORDER BY id order
IdRank(id) == CHOOSE i \in DOMAIN StoredElementIdOrder : StoredElementIdOrder[i] = id

\* sorted(..., key=lambda item: (-item["degree"], item["element_id"]))
RECURSIVE SortedByDegree(_, _, _)
SortedByDegree(rels, model_id, ids) ==
    IF ids = {} THEN <<>>
    ELSE LET first == CHOOSE a \in ids :
                         \A b \in ids :
                            \/ Degree(rels, model_id, a) > Degree(rels, model_id, b)
                            \/ /\ Degree(rels, model_id, a) = Degree(rels, model_id, b)
                               /\ IdRank(a) <= IdRank(b)
         IN <<[element_id |-> first, degree |-> Degree(rels, model_id, first)]>>
            \o SortedByDegree(rels, model_id, ids \ {first})

\* top_connected: the first ten of the sorted list
TopConnected(elems, rels, model_id) ==
    LET all == SortedByDegree(rels, model_id,
                              {k[2] : k \in {q \in DOMAIN elems : q[1] = model_id}})
    IN SubSeq(all, 1, Min(Len(all), TopConnectedLimit))

\* generate_report reads the layers through db, the database of its connection
\* (LEFT JOIN elements e), and ends with validate_model
generate_report_on(db, model_id) ==
    /\ IF ~_ensure_model_exists(models, model_id)
       THEN Failed(Raise("generate_report", model_id, "model_not_found", model_id))
       ELSE IF SelectNames(db, "elements") = None
       THEN Failed(Raise("generate_report", model_id, "no_such_table", "elements"))
       ELSE IF SelectNames(db, "relationships") = None
       THEN Failed(Raise("generate_report", model_id, "no_such_table", "relationships"))
       ELSE /\ result' = [Validation(model_id,
                                     Issues(model_elements, model_relationships, model_id,
                                            SelectNames(db, "elements")[1],
                                            SelectNames(db, "relationships")[1]))
                             EXCEPT !.op = "generate_report",
                                    !.top_connected = TopConnected(model_elements,
                                                                   model_relationships,
                                                                   model_id)]
            /\ UNCHANGED tables
    /\ UNCHANGED callers

generate_report(model_id) == generate_report_on(ModelDb, model_id)

----------------------------------------------------------------------------

Init ==
    /\ models = <<>>
    /\ model_elements = <<>>
    /\ model_relationships = <<>>
    /\ model_versions = <<>>
    /\ model_attribute_definitions = <<>>
    /\ model_locks = <<>>
    /\ result = NoResult
    /\ pc = <<>>
    /\ local = <<>>
    /\ CURRENT_MODEL = None

\* A call that raised has left the tables as they were, so the calls that follow
\* it are the calls that could have been made in its place: they are explored
\* from the state before it, and a state holding a raised result is not extended
AfterReturn == result.status # "error"

\* One call by a sequential caller, within the bounds of the run
Step(call, max_versions, max_definitions) ==
    /\ AfterReturn
    /\ call
    /\ Bounded(max_versions, max_definitions)
    /\ UNCHANGED CURRENT_MODEL

\* A uuid4: an id no row of the table carries
FreshIds(table, ids) == {id \in ids : \A k \in DOMAIN table : k[2] # id}

\* The id an upsert works on: the caller's, or a generated one
UpsertIds(table, ids, given) == IF given = None THEN FreshIds(table, ids) ELSE {given[1]}

\* Sequential callers of the whole store: models are created, updated and
\* deleted under both ids, and m1 is given its elements, relationships and tags
Next ==
    \/ \E m \in ModelIds, a \in Authors :
          Step(create_model(m, "Shop", "first", None, a),
               MaxVersions, MaxDefinitions)
    \/ \E m \in ModelIds, p \in ModelPatches, ev \in ExpectedVersions, a \in Authors :
          Step(update_model(m, p, ev, a),
               MaxVersions, MaxDefinitions)
    \/ \E m \in ModelIds : Step(delete_model(m), MaxVersions, MaxDefinitions)
    \/ \E p \in ElementPayloads, given \in {None, Some("e1")},
          ev \in ExpectedVersions, a \in Authors :
          \E id \in UpsertIds(model_elements, ElementIds, given) :
             Step(upsert_model_element("m1", p, id, ev, a),
                  MaxVersions, MaxDefinitions)
    \/ \E id \in ElementIds, ev \in ExpectedVersions, a \in Authors :
          Step(delete_model_element("m1", id, ev, a),
               MaxVersions, MaxDefinitions)
    \/ \E tgt \in ElementIds, ev \in ExpectedVersions, a \in Authors :
          Step(upsert_model_relationship("m1", Flow, "e1", tgt, "r1", ev, a),
               MaxVersions, MaxDefinitions)
    \/ \E id \in RelationshipIds, ev \in ExpectedVersions, a \in Authors :
          Step(delete_model_relationship("m1", id, ev, a),
               MaxVersions, MaxDefinitions)
    \/ \E v \in 1..MaxVersions, ev \in ExpectedVersions, a \in Authors :
          Step(revert_to_version("m1", v, ev, a),
               MaxVersions, MaxDefinitions)
    \/ \E replace \in BOOLEAN, ev \in ExpectedVersions,
          a \in Authors :
          Step(import_model_csv("m1", CsvGraph.elements, CsvGraph.relationships, replace,
                                ev, a),
               MaxVersions, MaxDefinitions)
    \/ \E t \in TargetTypes, k \in TagKeys :
          Step(define_attribute("m1", t, k, "", TRUE),
               MaxVersions, MaxDefinitions)
    \/ \E k \in TagKeys, v \in TagValues, a \in Authors :
          Step(add_element_tag("m1", "e1", k, v, a),
               MaxVersions, MaxDefinitions)
    \/ \E k \in TagKeys, a \in Authors :
          Step(remove_element_tag("m1", "e1", k, a),
               MaxVersions, MaxDefinitions)
    \/ \E k \in TagKeys, v \in TagValues, a \in Authors :
          Step(add_relationship_tag("m1", "r1", k, v, a),
               MaxVersions, MaxDefinitions)
    \/ \E k \in TagKeys, a \in Authors :
          Step(remove_relationship_tag("m1", "r1", k, a),
               MaxVersions, MaxDefinitions)

Spec == Init /\ [][Next]_vars

\* Sequential callers building the graphs of two models and cutting the graph
\* of m1
NextGraph ==
    \/ \E m \in ModelIds, a \in Authors :
          Step(create_model(m, "Shop", "first", None, a),
               MaxGraphVersions, 0)
    \/ \E m \in ModelIds, a \in Authors :
          Step(import_model_csv(m, CsvGraph.elements, CsvGraph.relationships, FALSE,
                                None, a),
               MaxGraphVersions, 0)
    \/ \E p \in {q \in ElementPayloads : q.attributes = None},
          id \in ElementIds, a \in Authors :
          Step(upsert_model_element("m1", p, id, None, a),
               MaxGraphVersions, 0)
    \/ \E src \in ElementIds, tgt \in ElementIds,
          id \in RelationshipIds, a \in Authors :
          Step(upsert_model_relationship("m1", Flow, src, tgt, id, None, a),
               MaxGraphVersions, 0)
    \/ \E id \in ElementIds, a \in Authors :
          Step(delete_model_element("m1", id, None, a),
               MaxGraphVersions, 0)

SpecGraph == Init /\ [][NextGraph]_vars

\* Sequential callers tagging the rows of one model and reverting it
NextRevert ==
    \/ \E a \in Authors :
          Step(create_model("m1", "Shop", "first", None, a),
               MaxRevertVersions, MaxRevertDefinitions)
    \/ \E t \in TargetTypes, k \in TagKeys :
          Step(define_attribute("m1", t, k, "", TRUE),
               MaxRevertVersions, MaxRevertDefinitions)
    \/ \E p \in {q \in ElementPayloads : q.attributes # None}, a \in Authors :
          Step(upsert_model_element("m1", p, "e1", None, a),
               MaxRevertVersions, MaxRevertDefinitions)
    \/ \E a \in Authors :
          Step(upsert_model_relationship("m1", Flow, "e1", "e1", "r1", None, a),
               MaxRevertVersions, MaxRevertDefinitions)
    \/ \E k \in TagKeys, v \in TagValues, a \in Authors :
          Step(add_element_tag("m1", "e1", k, v, a),
               MaxRevertVersions, MaxRevertDefinitions)
    \/ \E k \in TagKeys, v \in TagValues, a \in Authors :
          Step(add_relationship_tag("m1", "r1", k, v, a),
               MaxRevertVersions, MaxRevertDefinitions)
    \/ \E p \in {q \in ModelPatches : q.name # None}, a \in Authors :
          Step(update_model("m1", p, None, a),
               MaxRevertVersions, MaxRevertDefinitions)
    \/ \E v \in 1..MaxRevertVersions, a \in Authors :
          Step(revert_to_version("m1", v, None, a),
               MaxRevertVersions, MaxRevertDefinitions)

SpecRevert == Init /\ [][NextRevert]_vars

\* Sequential callers of one model whose relationships may name elements it does
\* not hold, and who may ask for versions it does not have
NextDangling ==
    \/ \E a \in Authors :
          Step(create_model("m1", "Shop", "first", None, a),
               MaxDanglingVersions, 0)
    \/ \E replace \in BOOLEAN, a \in Authors :
          Step(import_model_csv("m1", CsvDangling.elements, CsvDangling.relationships,
                                replace, None, a),
               MaxDanglingVersions, 0)
    \/ \E p \in {q \in ElementPayloads : q.attributes = None}, id \in ElementIds,
          a \in Authors :
          Step(upsert_model_element("m1", p, id, None, a),
               MaxDanglingVersions, 0)
    \/ \E id \in ElementIds, a \in Authors :
          Step(delete_model_element("m1", id, None, a),
               MaxDanglingVersions, 0)
    \/ \E p \in {q \in ModelPatches : q.name # None}, a \in Authors :
          Step(update_model("m1", p, None, a),
               MaxDanglingVersions, 0)
    \/ \E v \in 1..(MaxDanglingVersions + 1), a \in Authors :
          Step(revert_to_version("m1", v, None, a),
               MaxDanglingVersions, 0)

SpecDangling == Init /\ [][NextDangling]_vars

\* Sequential callers upserting elements under the searched names
NextSearch ==
    \/ \E m \in ModelIds, a \in Authors :
          Step(create_model(m, "Shop", "first", None, a),
               MaxSearchVersions, 0)
    \/ \E m \in ModelIds, p \in SearchPayloads, given \in {None, Some("e1")},
          a \in Authors :
          \E id \in UpsertIds(model_elements, ElementIds, given) :
             Step(upsert_model_element(m, p, id, None, a),
                  MaxSearchVersions, 0)
    \/ \E id \in ElementIds, a \in Authors :
          Step(delete_model_element("m1", id, None, a),
               MaxSearchVersions, 0)

SpecSearch == Init /\ [][NextSearch]_vars

\* Sequential callers of one model who tag its rows and upsert them again
NextUpsert ==
    \/ \E a \in Authors :
          Step(create_model("m1", "Shop", "first", None, a),
               MaxUpsertVersions, MaxUpsertDefinitions)
    \/ \E t \in TargetTypes, k \in TagKeys :
          Step(define_attribute("m1", t, k, "", TRUE),
               MaxUpsertVersions, MaxUpsertDefinitions)
    \/ \E p \in ElementPayloads, a \in Authors :
          Step(upsert_model_element("m1", p, "e1", None, a),
               MaxUpsertVersions, MaxUpsertDefinitions)
    \/ \E p \in {q \in ElementPayloads : q.attributes = None}, a \in Authors :
          \E id \in UpsertIds(model_elements, ElementIds, None) :
             Step(upsert_model_element("m1", p, id, None, a),
                  MaxUpsertVersions, MaxUpsertDefinitions)
    \/ \E p \in RelationshipPayloads, tgt \in ElementIds, a \in Authors :
          Step(upsert_model_relationship("m1", p, "e1", tgt, "r1", None, a),
               MaxUpsertVersions, MaxUpsertDefinitions)
    \/ \E a \in Authors :
          \E id \in UpsertIds(model_relationships, RelationshipIds, None) :
             Step(upsert_model_relationship("m1", Serving, "e1", "e1", id, None, a),
                  MaxUpsertVersions, MaxUpsertDefinitions)
    \/ \E k \in TagKeys, v \in TagValues, a \in Authors :
          Step(add_element_tag("m1", "e1", k, v, a),
               MaxUpsertVersions, MaxUpsertDefinitions)
    \/ \E k \in TagKeys, v \in TagValues, a \in Authors :
          Step(add_relationship_tag("m1", "r1", k, v, a),
               MaxUpsertVersions, MaxUpsertDefinitions)

SpecUpsert == Init /\ [][NextUpsert]_vars

\* Sequential callers of one model who define tag keys and add and remove tags
\* through archimate_model_cud
NextTags ==
    \/ \E a \in Authors :
          Step(create_model("m1", "Shop", "first", None, a),
               MaxTagVersions, MaxTagDefinitions)
    \/ \E a \in Authors :
          Step(import_model_csv("m1", CsvGraph.elements, CsvGraph.relationships,
                                FALSE, None, a),
               MaxTagVersions, MaxTagDefinitions)
    \/ \E t \in TargetTypes, k \in TagKeys, is_tag \in BOOLEAN :
          Step(define_attribute("m1", t, k, "", is_tag),
               MaxTagVersions, MaxTagDefinitions)
    \/ \E payload \in TagPayloads :
          Step(add_tag(payload), MaxTagVersions, MaxTagDefinitions)
    \/ \E payload \in TagPayloads :
          Step(remove_tag(payload), MaxTagVersions, MaxTagDefinitions)

SpecTags == Init /\ [][NextTags]_vars

\* Sequential callers who create and update models and take and give back
\* their locks
NextLock ==
    \/ \E m \in ModelIds, a \in Authors :
          Step(create_model(m, "Shop", "first", None, a), MaxLockVersions, 0)
    \/ \E p \in {q \in ModelPatches : q.name # None}, a \in Authors :
          Step(update_model("m1", p, None, a), MaxLockVersions, 0)
    \/ \E m \in ModelIds, owner \in Owners, force \in BOOLEAN :
          Step(acquire_lock(m, owner, force), MaxLockVersions, 0)
    \/ \E m \in ModelIds, owner \in OwnersGiven, force \in BOOLEAN :
          Step(release_lock(m, owner, force), MaxLockVersions, 0)

SpecLock == Init /\ [][NextLock]_vars

\* Sequential callers who change a model while its lock is taken and given back
NextAdvisory ==
    \/ \E a \in Authors :
          Step(create_model("m1", "Shop", "first", None, a),
               MaxAdvisoryVersions, MaxAdvisoryDefinitions)
    \/ \E owner \in Owners, force \in BOOLEAN :
          Step(acquire_lock("m1", owner, force),
               MaxAdvisoryVersions, MaxAdvisoryDefinitions)
    \/ \E owner \in {None} \cup {Some(o) : o \in Owners} :
          Step(release_lock("m1", owner, FALSE),
               MaxAdvisoryVersions, MaxAdvisoryDefinitions)
    \/ \E p \in {q \in ModelPatches : q.name # None}, ev \in ExpectedVersions,
          a \in Authors :
          Step(update_model("m1", p, ev, a),
               MaxAdvisoryVersions, MaxAdvisoryDefinitions)
    \/ \E p \in {q \in ElementPayloads : q.attributes = None}, ev \in ExpectedVersions,
          a \in Authors :
          Step(upsert_model_element("m1", p, "e1", ev, a),
               MaxAdvisoryVersions, MaxAdvisoryDefinitions)
    \/ \E ev \in ExpectedVersions, a \in Authors :
          Step(delete_model_element("m1", "e1", ev, a),
               MaxAdvisoryVersions, MaxAdvisoryDefinitions)
    \/ \E tgt \in ElementIds, a \in Authors :
          Step(upsert_model_relationship("m1", Serving, "e1", tgt, "r1", None, a),
               MaxAdvisoryVersions, MaxAdvisoryDefinitions)
    \/ \E a \in Authors :
          Step(delete_model_relationship("m1", "r1", None, a),
               MaxAdvisoryVersions, MaxAdvisoryDefinitions)
    \/ \E k \in TagKeys :
          Step(define_attribute("m1", "element", k, "", TRUE),
               MaxAdvisoryVersions, MaxAdvisoryDefinitions)
    \/ \E payload \in {p \in TagPayloads : p.relationship_id = None} :
          Step(add_tag(payload), MaxAdvisoryVersions, MaxAdvisoryDefinitions)
    \/ \E payload \in {p \in TagPayloads : p.relationship_id = None} :
          Step(remove_tag(payload), MaxAdvisoryVersions, MaxAdvisoryDefinitions)
    \/ \E v \in 1..MaxAdvisoryVersions, a \in Authors :
          Step(revert_to_version("m1", v, None, a),
               MaxAdvisoryVersions, MaxAdvisoryDefinitions)
    \/ \E replace \in BOOLEAN, a \in Authors :
          Step(import_model_csv("m1", CsvGraph.elements, CsvGraph.relationships,
                                replace, None, a),
               MaxAdvisoryVersions, MaxAdvisoryDefinitions)

SpecAdvisory == Init /\ [][NextAdvisory]_vars

\* Sequential callers who build one model, by upserts and by import, and ask
\* for its validation
NextValidate ==
    \/ \E a \in Authors :
          Step(create_model("m1", "Shop", "first", None, a), MaxValidateVersions, 0)
    \/ \E a \in Authors :
          Step(import_model_csv("m1", CsvDangling.elements, CsvDangling.relationships,
                                TRUE, None, a),
               MaxValidateVersions, 0)
    \/ \E p \in ValidatedElementPayloads, id \in ElementIds, a \in Authors :
          Step(upsert_model_element("m1", p, id, None, a), MaxValidateVersions, 0)
    \/ \E p \in ValidatedRelationshipPayloads, tgt \in ElementIds, a \in Authors :
          Step(upsert_model_relationship("m1", p, "e1", tgt, "r1", None, a),
               MaxValidateVersions, 0)
    \/ \E m \in ModelIds :
          Step(validate_model(m), MaxValidateVersions, 0)

SpecValidate == Init /\ [][NextValidate]_vars

\* Sequential callers who create a model, import one graph into it while it has
\* no relationships, and ask for a path
NextPath ==
    \/ \E a \in Authors :
          Step(create_model("m1", "Shop", "first", None, a), MaxPathVersions, 0)
    \/ \E g \in PathGraphs, a \in Authors :
          /\ \A k \in DOMAIN model_relationships : k[1] # "m1"
          /\ Step(import_model_csv("m1", g.elements, g.relationships, TRUE, None, a),
                  MaxPathVersions, 0)
    \/ \E payload \in PathPayloads :
          /\ result.op # "path_exists"
          /\ Step(path_exists(payload), MaxPathVersions, 0)

SpecPath == Init /\ [][NextPath]_vars

\* Sequential callers who create a model, import one graph into it while it has
\* no relationships, and ask for the neighbours of an element
NextNeighbors ==
    \/ \E a \in Authors :
          Step(create_model("m1", "Shop", "first", None, a), MaxNeighborVersions, 0)
    \/ \E g \in NeighborGraphs, a \in Authors :
          /\ \A k \in DOMAIN model_relationships : k[1] # "m1"
          /\ Step(import_model_csv("m1", g.elements, g.relationships, TRUE, None, a),
                  MaxNeighborVersions, 0)
    \/ \E payload \in NeighborPayloads :
          /\ result.op # "neighbors"
          /\ Step(neighbors(payload), MaxNeighborVersions, 0)

SpecNeighbors == Init /\ [][NextNeighbors]_vars

\* Sequential callers who create a model, import dated elements and
\* relationships into it while it is empty, and ask for a slice
NextSlice ==
    \/ \E a \in Authors :
          Step(create_model("m1", "Shop", "first", None, a), MaxSliceVersions, 0)
    \/ \E f \in SliceFiles, a \in Authors :
          /\ \A k \in DOMAIN model_elements : k[1] # "m1"
          /\ Step(import_model_csv("m1", f.elements, f.relationships, TRUE, None, a),
                  MaxSliceVersions, 0)
    \/ \E payload \in SlicePayloads :
          /\ result.op # "temporal_slice"
          /\ Step(temporal_slice(payload), MaxSliceVersions, 0)

SpecSlice == Init /\ [][NextSlice]_vars

\* Sequential callers who build one model, by upserts and by import, and ask
\* for its report
NextReport ==
    \/ \E a \in Authors :
          Step(create_model("m1", "Shop", "first", None, a), MaxReportVersions, 0)
    \/ \E f \in {CsvGraph, CsvChain}, a \in Authors :
          Step(import_model_csv("m1", f.elements, f.relationships, TRUE, None, a),
               MaxReportVersions, 0)
    \/ \E id \in ElementIds, a \in Authors :
          Step(upsert_model_element("m1", CHOOSE p \in ElementPayloads : p.attributes = None,
                                    id, None, a),
               MaxReportVersions, 0)
    \/ \E src \in ElementIds, tgt \in ElementIds, id \in RelationshipIds, a \in Authors :
          Step(upsert_model_relationship("m1", Serving, src, tgt, id, None, a),
               MaxReportVersions, 0)
    \/ \E m \in ModelIds :
          Step(generate_report(m), MaxReportVersions, 0)

SpecReport == Init /\ [][NextReport]_vars

\* Sequential callers of the live operations on two models: no import and no
\* delete_model
NextLive ==
    \/ \E m \in ModelIds, a \in Authors :
          Step(create_model(m, "Shop", "first", None, a),
               MaxLiveVersions, MaxLiveDefinitions)
    \/ \E p \in {q \in ModelPatches : q.name # None}, a \in Authors :
          Step(update_model("m1", p, None, a),
               MaxLiveVersions, MaxLiveDefinitions)
    \/ \E m \in ModelIds, id \in ElementIds, a \in Authors :
          Step(upsert_model_element(m, CHOOSE p \in ElementPayloads : p.attributes = None,
                                    id, None, a),
               MaxLiveVersions, MaxLiveDefinitions)
    \/ \E id \in ElementIds, a \in Authors :
          Step(delete_model_element("m1", id, None, a),
               MaxLiveVersions, MaxLiveDefinitions)
    \/ \E src \in ElementIds, tgt \in ElementIds, a \in Authors :
          Step(upsert_model_relationship("m1", Serving, src, tgt, "r1", None, a),
               MaxLiveVersions, MaxLiveDefinitions)
    \/ \E a \in Authors :
          Step(delete_model_relationship("m1", "r1", None, a),
               MaxLiveVersions, MaxLiveDefinitions)
    \/ \E t \in TargetTypes, k \in TagKeys :
          Step(define_attribute("m1", t, k, "", TRUE),
               MaxLiveVersions, MaxLiveDefinitions)
    \/ \E k \in TagKeys, v \in TagValues, a \in Authors :
          Step(add_element_tag("m1", "e1", k, v, a),
               MaxLiveVersions, MaxLiveDefinitions)
    \/ \E k \in TagKeys, a \in Authors :
          Step(remove_element_tag("m1", "e1", k, a),
               MaxLiveVersions, MaxLiveDefinitions)
    \/ \E k \in TagKeys, v \in TagValues, a \in Authors :
          Step(add_relationship_tag("m1", "r1", k, v, a),
               MaxLiveVersions, MaxLiveDefinitions)
    \/ \E k \in TagKeys, a \in Authors :
          Step(remove_relationship_tag("m1", "r1", k, a),
               MaxLiveVersions, MaxLiveDefinitions)
    \/ \E v \in 1..MaxLiveVersions, a \in Authors :
          Step(revert_to_version("m1", v, None, a),
               MaxLiveVersions, MaxLiveDefinitions)

SpecLive == Init /\ [][NextLive]_vars

----------------------------------------------------------------------------
(* upsert_model_element called by several callers at once (threads or server
   processes on the same database file), each on a connection of its own.
   sqlite3 opens no transaction for a SELECT: the three reads of a call are
   steps of their own, and other connections may commit between them.  The
   INSERT opens the transaction, which holds the write lock of the database
   until connection.commit(): the INSERT, _create_version and the commit are
   one step for every other connection. *)

\* The call is made: model_id, payload, element_id, expected_version, author are
\* its arguments; started_at records current_version at the time of the call
upsert_model_element_call(c, model_id, payload, element_id, expected_version, author) ==
    /\ c \notin DOMAIN pc
    /\ UNCHANGED CURRENT_MODEL
    /\ pc' = (c :> "_ensure_model_exists") @@ pc
    /\ local' = (c :> [model_id |-> model_id, payload |-> payload,
                       element_id |-> element_id,
                       expected_version |-> expected_version, author |-> author,
                       started_at |-> IF model_id \in DOMAIN models
                                      THEN models[model_id].current_version ELSE 0,
                       exists |-> FALSE, returned |-> NoResult]) @@ local
    /\ UNCHANGED <<tables, result>>

\* The call of c returns r
Return(c, r) ==
    /\ pc' = [pc EXCEPT ![c] = "done"]
    /\ local' = [local EXCEPT ![c].returned = r]

upsert_model_element_ensure_model_exists(c) ==
    /\ c \in DOMAIN pc
    /\ UNCHANGED CURRENT_MODEL
    /\ pc[c] = "_ensure_model_exists"
    /\ IF ~_ensure_model_exists(models, local[c].model_id)
       THEN LET r == Raise("upsert_model_element", local[c].model_id,
                           "model_not_found", local[c].model_id)
            IN Failed(r) /\ Return(c, r)
       ELSE /\ pc' = [pc EXCEPT ![c] = "_ensure_expected_version"]
            /\ UNCHANGED <<tables, result, local>>

upsert_model_element_ensure_expected_version(c) ==
    /\ c \in DOMAIN pc
    /\ UNCHANGED CURRENT_MODEL
    /\ pc[c] = "_ensure_expected_version"
    /\ IF _ensure_expected_version(models, local[c].model_id,
                                   local[c].expected_version)
       THEN LET r == VersionConflict("upsert_model_element", local[c].model_id,
                                     local[c].expected_version[1],
                                     models[local[c].model_id].current_version)
            IN Failed(r) /\ Return(c, r)
       ELSE /\ pc' = [pc EXCEPT ![c] = "select_exists"]
            /\ UNCHANGED <<tables, result, local>>

upsert_model_element_select_exists(c) ==
    /\ c \in DOMAIN pc
    /\ UNCHANGED CURRENT_MODEL
    /\ pc[c] = "select_exists"
    /\ pc' = [pc EXCEPT ![c] = "insert"]
    /\ local' = [local EXCEPT ![c].exists =
                    <<local[c].model_id, local[c].element_id>> \in DOMAIN model_elements]
    /\ UNCHANGED <<tables, result>>

\* INSERT OR REPLACE, _create_version, connection.commit()
upsert_model_element_commit(c) ==
    /\ c \in DOMAIN pc
    /\ UNCHANGED CURRENT_MODEL
    /\ pc[c] = "insert"
    /\ LET model_id == local[c].model_id
           key == <<model_id, local[c].element_id>>
           row == UpsertedElementRow(model_elements, model_versions, model_id,
                                     local[c].element_id, local[c].payload)
       IN Commit("upsert_model_element", model_id, models,
                 (key :> row) @@ model_elements, model_relationships,
                 local[c].author, "Element upserted",
                 IF local[c].exists THEN "updated" ELSE "created",
                 local[c].element_id, 0)
    /\ Return(c, result')

\* Callers of upsert_model_element at the same time; create_model is called
\* while no call of theirs is in progress
NextConc ==
    \/ \E m \in ModelIds, a \in Authors :
          /\ \A c \in DOMAIN pc : pc[c] = "done"
          /\ create_model(m, "Shop", "first", None, a)
          /\ Bounded(MaxConcVersions, 0)
          /\ UNCHANGED CURRENT_MODEL
    \/ \E c \in Callers, m \in ModelIds, p \in {q \in ElementPayloads : q.attributes = None},
          id \in ElementIds, ev \in ExpectedVersions, a \in Authors :
          upsert_model_element_call(c, m, p, id, ev, a)
    \/ \E c \in Callers : upsert_model_element_ensure_model_exists(c)
    \/ \E c \in Callers : upsert_model_element_ensure_expected_version(c)
    \/ \E c \in Callers : upsert_model_element_select_exists(c)
    \/ \E c \in Callers :
          /\ upsert_model_element_commit(c)
          /\ Bounded(MaxConcVersions, 0)

SpecConc == Init /\ [][NextConc]_vars

----------------------------------------------------------------------------
(* acquire_lock and release_lock called by several callers at once, each on a
   connection of its own.  The SELECTs of a call run outside a transaction, so
   other connections may commit between them; the first DELETE or INSERT opens
   the transaction, which holds the write lock of the database until
   connection.commit(), so the writes of a call and its commit are one step
   for every other connection.  model_locks.model_id is the PRIMARY KEY: an
   INSERT for a model that has a lock row raises sqlite3.IntegrityError. *)

\* The call is made: `owner` is the owner text of acquire_lock and the optional
\* owner of release_lock
lock_call(c, op, model_id, owner, force) ==
    /\ c \notin DOMAIN pc
    /\ UNCHANGED CURRENT_MODEL
    /\ pc' = (c :> "_ensure_model_exists") @@ pc
    /\ local' = (c :> [op |-> op, model_id |-> model_id, owner |-> owner,
                       force |-> force, row |-> None, returned |-> NoResult]) @@ local
    /\ UNCHANGED <<tables, result>>

lock_ensure_model_exists(c) ==
    /\ c \in DOMAIN pc
    /\ UNCHANGED CURRENT_MODEL
    /\ pc[c] = "_ensure_model_exists"
    /\ IF ~_ensure_model_exists(models, local[c].model_id)
       THEN LET r == Raise(local[c].op, local[c].model_id, "model_not_found",
                           local[c].model_id)
            IN Failed(r) /\ Return(c, r)
       ELSE /\ pc' = [pc EXCEPT ![c] = "select"]
            /\ UNCHANGED <<tables, result, local>>

\* SELECT owner, acquired_at FROM model_locks WHERE model_id = ?
lock_select(c) ==
    /\ c \in DOMAIN pc
    /\ UNCHANGED CURRENT_MODEL
    /\ pc[c] = "select"
    /\ pc' = [pc EXCEPT ![c] = "write"]
    /\ local' = [local EXCEPT ![c].row =
                    IF local[c].model_id \in DOMAIN model_locks
                    THEN Some(model_locks[local[c].model_id]) ELSE None]
    /\ UNCHANGED <<tables, result>>

\* Mutant: INSERT OR REPLACE INTO model_locks
InsertLock_or_replace(locks, model_id, owner, now) ==
    [ok |-> TRUE,
     locks |-> (model_id :> [owner |-> owner, acquired_at |-> now]) @@ locks]

\* INSERT INTO model_locks(model_id, owner): refused when the model has a row
InsertLock(locks, model_id, owner, now) ==
    IF model_id \in DOMAIN locks
    THEN [ok |-> FALSE, locks |-> locks]
    ELSE [ok |-> TRUE,
          locks |-> (model_id :> [owner |-> owner, acquired_at |-> now]) @@ locks]

\* What acquire_lock does with the row it has read: return, raise, or DELETE
\* (when forced), INSERT and commit
acquire_lock_write(c) ==
    /\ c \in DOMAIN pc
    /\ UNCHANGED CURRENT_MODEL
    /\ pc[c] = "write"
    /\ local[c].op = "acquire_lock"
    /\ LET model_id == local[c].model_id
           owner == local[c].owner
           row == local[c].row
       IN IF row # None /\ row[1].owner = owner
          THEN LET r == LockResult("acquire_lock", model_id, "already_locked", owner,
                                   row[1].acquired_at)
               IN result' = r /\ UNCHANGED tables /\ Return(c, r)
          ELSE IF row # None /\ ~local[c].force
          THEN LET r == Raise("acquire_lock", model_id, "locked", row[1].owner)
               IN Failed(r) /\ Return(c, r)
          ELSE LET deleted == IF row # None THEN Without(model_locks, {model_id})
                              ELSE model_locks
                   inserted == InsertLock(deleted, model_id, owner,
                                          CURRENT_TIMESTAMP(model_versions))
               IN IF ~inserted.ok
                  THEN LET r == Raise("acquire_lock", model_id, "integrity_error",
                                      model_id)
                       IN Failed(r) /\ Return(c, r)
                  ELSE /\ model_locks' = inserted.locks
                       /\ pc' = [pc EXCEPT ![c] = "select_after"]
                       /\ UNCHANGED <<models, model_elements, model_relationships,
                                      model_versions, model_attribute_definitions,
                                      result, local>>

\* The SELECT after the commit: the row read is the one returned, and a row
\* that is gone makes the unpacking of fetchone() raise TypeError
acquire_lock_select_after(c) ==
    /\ c \in DOMAIN pc
    /\ UNCHANGED CURRENT_MODEL
    /\ pc[c] = "select_after"
    /\ LET model_id == local[c].model_id
           r == IF model_id \in DOMAIN model_locks
                THEN LockResult("acquire_lock", model_id, "locked",
                                model_locks[model_id].owner,
                                model_locks[model_id].acquired_at)
                ELSE Raise("acquire_lock", model_id, "type_error", model_id)
       IN result' = r /\ UNCHANGED tables /\ Return(c, r)

\* What release_lock does with the row it has read: return, raise, or DELETE
\* and commit
release_lock_write(c) ==
    /\ c \in DOMAIN pc
    /\ UNCHANGED CURRENT_MODEL
    /\ pc[c] = "write"
    /\ local[c].op = "release_lock"
    /\ LET model_id == local[c].model_id
           owner == local[c].owner
           row == local[c].row
       IN IF row = None
          THEN LET r == LockResult("release_lock", model_id, "not_locked", "", NoDate)
               IN result' = r /\ UNCHANGED tables /\ Return(c, r)
          ELSE IF /\ ~local[c].force
                  /\ owner # None /\ owner # Some("")
                  /\ owner[1] # row[1].owner
          THEN LET r == Raise("release_lock", model_id, "lock_owner_mismatch",
                              row[1].owner)
               IN Failed(r) /\ Return(c, r)
          ELSE LET r == LockResult("release_lock", model_id, "released",
                                   row[1].owner, NoDate)
               IN /\ model_locks' = Without(model_locks, {model_id})
                  /\ result' = r
                  /\ UNCHANGED <<models, model_elements, model_relationships,
                                 model_versions, model_attribute_definitions>>
                  /\ Return(c, r)

\* Callers of acquire_lock and release_lock at the same time; before their
\* calls the model is created and updated and its lock may be taken
NextLockConc ==
    \/ \E a \in Authors :
          /\ pc = <<>>
          /\ Step(create_model("m1", "Shop", "first", None, a), MaxLockConcVersions, 0)
    \/ \E p \in {q \in ModelPatches : q.name # None}, a \in Authors :
          /\ pc = <<>>
          /\ Step(update_model("m1", p, None, a), MaxLockConcVersions, 0)
    \/ \E owner \in Owners :
          /\ pc = <<>>
          /\ Step(acquire_lock("m1", owner, FALSE), MaxLockConcVersions, 0)
    \/ \E c \in Callers, owner \in Owners, force \in BOOLEAN :
          lock_call(c, "acquire_lock", "m1", owner, force)
    \/ \E c \in Callers, owner \in OwnersGiven, force \in BOOLEAN :
          lock_call(c, "release_lock", "m1", owner, force)
    \/ \E c \in Callers : lock_ensure_model_exists(c)
    \/ \E c \in Callers : lock_select(c)
    \/ \E c \in Callers : acquire_lock_write(c)
    \/ \E c \in Callers : acquire_lock_select_after(c)
    \/ \E c \in Callers : release_lock_write(c)

SpecLockConc == Init /\ [][NextLockConc]_vars

----------------------------------------------------------------------------
(* upsert_model_relationship and delete_model_element called at the same time,
   each on a connection of its own.  The SELECTs of upsert_model_relationship
   (model, version, source, target, relationship) run before its INSERT opens
   the transaction, so another connection may commit between any two of them.
   The DELETE of delete_model_element opens its transaction: both DELETEs,
   _create_version and the commit are one step for every other connection. *)

upsert_model_relationship_call(c, model_id, source_element_id, target_element_id, relationship_id, expected_version, author) ==
    /\ c \notin DOMAIN pc
    /\ UNCHANGED CURRENT_MODEL
    /\ pc' = (c :> "_ensure_model_exists") @@ pc
    /\ local' = (c :> [op |-> "upsert_model_relationship", model_id |-> model_id,
                       source_element_id |-> source_element_id,
                       target_element_id |-> target_element_id,
                       id |-> relationship_id, expected_version |-> expected_version,
                       author |-> author, exists |-> FALSE, returned |-> NoResult]) @@ local
    /\ UNCHANGED <<tables, result>>

delete_model_element_call(c, model_id, element_id, expected_version, author) ==
    /\ c \notin DOMAIN pc
    /\ UNCHANGED CURRENT_MODEL
    /\ pc' = (c :> "_ensure_model_exists") @@ pc
    /\ local' = (c :> [op |-> "delete_model_element", model_id |-> model_id,
                       source_element_id |-> "", target_element_id |-> "",
                       id |-> element_id, expected_version |-> expected_version,
                       author |-> author, exists |-> FALSE, returned |-> NoResult]) @@ local
    /\ UNCHANGED <<tables, result>>

\* _ensure_model_exists of either operation
race_ensure_model_exists(c) ==
    /\ c \in DOMAIN pc
    /\ UNCHANGED CURRENT_MODEL
    /\ pc[c] = "_ensure_model_exists"
    /\ IF ~_ensure_model_exists(models, local[c].model_id)
       THEN LET r == Raise(local[c].op, local[c].model_id, "model_not_found",
                           local[c].model_id)
            IN Failed(r) /\ Return(c, r)
       ELSE /\ pc' = [pc EXCEPT ![c] = "_ensure_expected_version"]
            /\ UNCHANGED <<tables, result, local>>

\* _ensure_expected_version of either operation
race_ensure_expected_version(c) ==
    /\ c \in DOMAIN pc
    /\ UNCHANGED CURRENT_MODEL
    /\ pc[c] = "_ensure_expected_version"
    /\ IF _ensure_expected_version(models, local[c].model_id, local[c].expected_version)
       THEN LET r == VersionConflict(local[c].op, local[c].model_id,
                                     local[c].expected_version[1],
                                     models[local[c].model_id].current_version)
            IN Failed(r) /\ Return(c, r)
       ELSE /\ pc' = [pc EXCEPT ![c] = IF local[c].op = "delete_model_element"
                                       THEN "delete" ELSE "select_source"]
            /\ UNCHANGED <<tables, result, local>>

\* SELECT 1 FROM model_elements WHERE model_id=? AND id=?, for the source
upsert_model_relationship_select_source(c) ==
    /\ c \in DOMAIN pc
    /\ UNCHANGED CURRENT_MODEL
    /\ pc[c] = "select_source"
    /\ IF <<local[c].model_id, local[c].source_element_id>> \notin DOMAIN model_elements
       THEN LET r == Raise(local[c].op, local[c].model_id, "source_not_found",
                           local[c].source_element_id)
            IN Failed(r) /\ Return(c, r)
       ELSE /\ pc' = [pc EXCEPT ![c] = "select_target"]
            /\ UNCHANGED <<tables, result, local>>

\* The same SELECT for the target
upsert_model_relationship_select_target(c) ==
    /\ c \in DOMAIN pc
    /\ UNCHANGED CURRENT_MODEL
    /\ pc[c] = "select_target"
    /\ IF <<local[c].model_id, local[c].target_element_id>> \notin DOMAIN model_elements
       THEN LET r == Raise(local[c].op, local[c].model_id, "target_not_found",
                           local[c].target_element_id)
            IN Failed(r) /\ Return(c, r)
       ELSE /\ pc' = [pc EXCEPT ![c] = "select_exists"]
            /\ UNCHANGED <<tables, result, local>>

\* SELECT 1 FROM model_relationships WHERE model_id = ? AND id = ?
upsert_model_relationship_select_exists(c) ==
    /\ c \in DOMAIN pc
    /\ UNCHANGED CURRENT_MODEL
    /\ pc[c] = "select_exists"
    /\ pc' = [pc EXCEPT ![c] = "insert"]
    /\ local' = [local EXCEPT ![c].exists =
                    <<local[c].model_id, local[c].id>> \in DOMAIN model_relationships]
    /\ UNCHANGED <<tables, result>>

\* INSERT OR REPLACE, _create_version, connection.commit()
upsert_model_relationship_commit(c) ==
    /\ c \in DOMAIN pc
    /\ UNCHANGED CURRENT_MODEL
    /\ pc[c] = "insert"
    /\ LET model_id == local[c].model_id
           key == <<model_id, local[c].id>>
           row == UpsertedRelationshipRow(model_relationships, model_versions, model_id,
                                          local[c].id, local[c].source_element_id,
                                          local[c].target_element_id, Serving)
       IN Commit(local[c].op, model_id, models, model_elements,
                 (key :> row) @@ model_relationships, local[c].author,
                 "Relationship upserted",
                 IF local[c].exists THEN "updated" ELSE "created", local[c].id, 0)
    /\ Return(c, result')

\* Both DELETEs, the rowcount test, _create_version, connection.commit()
delete_model_element_commit(c) ==
    /\ c \in DOMAIN pc
    /\ UNCHANGED CURRENT_MODEL
    /\ pc[c] = "delete"
    /\ LET model_id == local[c].model_id
           deleted == RelationshipsOf(model_relationships, model_id, local[c].id)
           key == <<model_id, local[c].id>>
       IN IF key \notin DOMAIN model_elements
          THEN Failed(Raise(local[c].op, model_id, "element_not_found", local[c].id))
          ELSE Commit(local[c].op, model_id, models, Without(model_elements, {key}),
                      Without(model_relationships, deleted), local[c].author,
                      "Element deleted", "deleted", local[c].id, Cardinality(deleted))
    /\ Return(c, result')

\* A model and its elements are set up while no call is in progress; then one
\* caller upserts a relationship while another deletes an element
NextRace ==
    \/ \E a \in Authors :
          /\ pc = <<>>
          /\ Step(create_model("m1", "Shop", "first", None, a), MaxRaceVersions, 0)
    \/ \E id \in ElementIds, a \in Authors :
          /\ pc = <<>>
          /\ Step(upsert_model_element("m1", CHOOSE p \in ElementPayloads : p.attributes = None,
                                       id, None, a),
                  MaxRaceVersions, 0)
    \/ \E c \in Callers, src \in ElementIds, tgt \in ElementIds, id \in RelationshipIds,
          ev \in ExpectedVersions, a \in Authors :
          upsert_model_relationship_call(c, "m1", src, tgt, id, ev, a)
    \/ \E c \in Callers, id \in ElementIds, ev \in ExpectedVersions, a \in Authors :
          delete_model_element_call(c, "m1", id, ev, a)
    \/ \E c \in Callers : race_ensure_model_exists(c)
    \/ \E c \in Callers : race_ensure_expected_version(c)
    \/ \E c \in Callers : upsert_model_relationship_select_source(c)
    \/ \E c \in Callers : upsert_model_relationship_select_target(c)
    \/ \E c \in Callers : upsert_model_relationship_select_exists(c)
    \/ \E c \in Callers :
          /\ upsert_model_relationship_commit(c)
          /\ Bounded(MaxRaceVersions, 0)
    \/ \E c \in Callers :
          /\ delete_model_element_commit(c)
          /\ Bounded(MaxRaceVersions, 0)

SpecRace == Init /\ [][NextRace]_vars

----------------------------------------------------------------------------
(* add_element_tag called at the same time on connections of their own.  The
   SELECTs (model, attribute definition, tags_json) run before the UPDATE opens
   the transaction; the UPDATE writes the whole tag map the call has read, with
   its own key set, and is one step with _create_version and the commit. *)

RaceTagKeys == {"env", "tier"}

add_element_tag_call(c, model_id, element_id, key, value, author) ==
    /\ c \notin DOMAIN pc
    /\ UNCHANGED CURRENT_MODEL
    /\ pc' = (c :> "_ensure_model_exists") @@ pc
    /\ local' = (c :> [op |-> "add_element_tag", model_id |-> model_id,
                       id |-> element_id, key |-> key, value |-> value,
                       author |-> author, tags |-> EmptyDict,
                       returned |-> NoResult]) @@ local
    /\ UNCHANGED <<tables, result>>

add_element_tag_ensure_model_exists(c) ==
    /\ c \in DOMAIN pc
    /\ UNCHANGED CURRENT_MODEL
    /\ pc[c] = "_ensure_model_exists"
    /\ IF ~_ensure_model_exists(models, local[c].model_id)
       THEN LET r == Raise(local[c].op, local[c].model_id, "model_not_found",
                           local[c].model_id)
            IN Failed(r) /\ Return(c, r)
       ELSE /\ pc' = [pc EXCEPT ![c] = "_resolve_tag_key"]
            /\ UNCHANGED <<tables, result, local>>

add_element_tag_resolve_tag_key(c) ==
    /\ c \in DOMAIN pc
    /\ UNCHANGED CURRENT_MODEL
    /\ pc[c] = "_resolve_tag_key"
    /\ IF ~_resolve_tag_key(model_attribute_definitions, local[c].model_id, "element",
                            local[c].key)
       THEN LET r == Raise(local[c].op, local[c].model_id, "invalid_tag_key",
                           local[c].key)
            IN Failed(r) /\ Return(c, r)
       ELSE /\ pc' = [pc EXCEPT ![c] = "select_tags"]
            /\ UNCHANGED <<tables, result, local>>

\* SELECT tags_json FROM model_elements; tags = json.loads(row[0]); tags[key] = value
add_element_tag_select_tags(c) ==
    /\ c \in DOMAIN pc
    /\ UNCHANGED CURRENT_MODEL
    /\ pc[c] = "select_tags"
    /\ LET k == <<local[c].model_id, local[c].id>>
       IN IF k \notin DOMAIN model_elements
          THEN LET r == Raise(local[c].op, local[c].model_id, "element_not_found",
                              local[c].id)
               IN Failed(r) /\ Return(c, r)
          ELSE /\ pc' = [pc EXCEPT ![c] = "update"]
               /\ local' = [local EXCEPT ![c].tags =
                               (local[c].key :> local[c].value) @@ model_elements[k].tags]
               /\ UNCHANGED <<tables, result>>

\* UPDATE model_elements SET tags_json = ?, _create_version, connection.commit()
add_element_tag_commit(c) ==
    /\ c \in DOMAIN pc
    /\ UNCHANGED CURRENT_MODEL
    /\ pc[c] = "update"
    /\ LET model_id == local[c].model_id
           k == <<model_id, local[c].id>>
       IN Commit(local[c].op, model_id, models,
                 IF k \in DOMAIN model_elements
                 THEN [model_elements EXCEPT
                          ![k].tags = local[c].tags,
                          ![k].updated_at = CURRENT_TIMESTAMP(model_versions)]
                 ELSE model_elements,
                 model_relationships, local[c].author, "Tag added", "ok", local[c].id, 0)
    /\ Return(c, result')

\* A model, its elements and its tag keys are set up while no call is in
\* progress; then two callers tag an element
NextTagRace ==
    \/ \E a \in Authors :
          /\ pc = <<>>
          /\ Step(create_model("m1", "Shop", "first", None, a),
                  MaxTagRaceVersions, MaxTagRaceDefinitions)
    \/ \E id \in ElementIds, a \in Authors :
          /\ pc = <<>>
          /\ Step(upsert_model_element("m1", CHOOSE p \in ElementPayloads : p.attributes = None,
                                       id, None, a),
                  MaxTagRaceVersions, MaxTagRaceDefinitions)
    \/ \E k \in RaceTagKeys :
          /\ pc = <<>>
          /\ Step(define_attribute("m1", "element", k, "", TRUE),
                  MaxTagRaceVersions, MaxTagRaceDefinitions)
    \/ \E c \in Callers, id \in ElementIds, k \in RaceTagKeys, v \in {"prod", "gold"},
          a \in Authors :
          add_element_tag_call(c, "m1", id, k, v, a)
    \/ \E c \in Callers : add_element_tag_ensure_model_exists(c)
    \/ \E c \in Callers : add_element_tag_resolve_tag_key(c)
    \/ \E c \in Callers : add_element_tag_select_tags(c)
    \/ \E c \in Callers :
          /\ add_element_tag_commit(c)
          /\ Bounded(MaxTagRaceVersions, MaxTagRaceDefinitions)

SpecTagRace == Init /\ [][NextTagRace]_vars

----------------------------------------------------------------------------
(* The archimate_model_management tool: its actions create_model and
   define_attribute, with the model id the server remembers *)

GeneratedIds == {"u1", "u2"}                 \* values uuid4 may return
ManagementCreatePayloads ==
    [name : {None, Some("Shop")}, model_id : {None, Some("m1")}, author : Authors]
ManagementDefinePayloads ==
    [model_id : {None, Some("m1")}, target_type : {"element"}, key : {None, Some("env")},
     description : {""}]

\* A payload without model_id takes the id get_current_model() returns
payload_model_id(payload) ==
    IF payload.model_id = None THEN CURRENT_MODEL ELSE payload.model_id

\* uuid4 returns an id no model has carried
uuid4 ==
    {u \in GeneratedIds : u \notin DOMAIN models
                            /\ \A k \in DOMAIN model_versions : k[1] # u}

management_create_model(payload) ==
    LET model_id == payload_model_id(payload)
    IN IF payload.name = None
       THEN /\ Failed(Raise("create_model", "", "missing_field", "name"))
            /\ UNCHANGED <<callers, CURRENT_MODEL>>
       ELSE \E id \in (IF model_id = None THEN uuid4 ELSE {model_id[1]}) :
               /\ create_model(id, payload.name[1], "", None, payload.author)
               /\ CURRENT_MODEL' = IF result'.status = "ok" THEN Some(result'.id)
                                   ELSE CURRENT_MODEL

management_define_attribute(payload) ==
    LET model_id == payload_model_id(payload)
    IN IF model_id = None
       THEN /\ Failed(Raise("define_attribute", "", "missing_field", "model_id"))
            /\ UNCHANGED <<callers, CURRENT_MODEL>>
       ELSE IF payload.key = None
       THEN /\ Failed(Raise("define_attribute", model_id[1], "missing_field", "key"))
            /\ UNCHANGED <<callers, CURRENT_MODEL>>
       ELSE /\ define_attribute(model_id[1], payload.target_type, payload.key[1],
                                payload.description, FALSE)
            /\ UNCHANGED CURRENT_MODEL

\* Calls of the management tool, of the attribute dictionary (define with
\* is_tag = true) and of the store's upsert_model_element and add_element_tag
NextManagement ==
    \/ \E payload \in ManagementCreatePayloads :
          /\ AfterReturn
          /\ management_create_model(payload)
          /\ Bounded(MaxManagementVersions, MaxManagementDefinitions)
    \/ \E payload \in ManagementDefinePayloads :
          /\ AfterReturn
          /\ management_define_attribute(payload)
          /\ Bounded(MaxManagementVersions, MaxManagementDefinitions)
    \/ \E m \in DOMAIN models :
          Step(define_attribute(m, "element", "env", "", TRUE),
               MaxManagementVersions, MaxManagementDefinitions)
    \/ \E m \in DOMAIN models, a \in Authors :
          Step(upsert_model_element(m, CHOOSE p \in ElementPayloads : p.attributes = None,
                                    "e1", None, a),
               MaxManagementVersions, MaxManagementDefinitions)
    \/ \E m \in DOMAIN models, a \in Authors :
          Step(add_element_tag(m, "e1", "env", "prod", a),
               MaxManagementVersions, MaxManagementDefinitions)

SpecManagement == Init /\ [][NextManagement]_vars

----------------------------------------------------------------------------
(* Properties checked under Spec *)

VersionedOps == {"update_model", "upsert_model_element", "delete_model_element",
                 "upsert_model_relationship", "delete_model_relationship",
                 "revert_to_version", "import_model_csv"}
TagOps == {"add_element_tag", "remove_element_tag", "add_relationship_tag",
           "remove_relationship_tag"}
MutatingOps == VersionedOps \cup TagOps

VersionedCall(m, ev) ==
    \/ \E p \in ModelPatches, a \in Authors : update_model(m, p, ev, a)
    \/ \E p \in ElementPayloads, id \in ElementIds, a \in Authors :
          upsert_model_element(m, p, id, ev, a)
    \/ \E id \in ElementIds, a \in Authors : delete_model_element(m, id, ev, a)
    \/ \E p \in RelationshipPayloads, src \in ElementIds, tgt \in ElementIds,
          id \in RelationshipIds, a \in Authors :
          upsert_model_relationship(m, p, src, tgt, id, ev, a)
    \/ \E id \in RelationshipIds, a \in Authors : delete_model_relationship(m, id, ev, a)
    \/ \E v \in 1..MaxVersions, a \in Authors : revert_to_version(m, v, ev, a)
    \/ \E replace \in BOOLEAN, a \in Authors :
          import_model_csv(m, CsvGraph.elements, CsvGraph.relationships, replace, ev, a)

\* C2: a call of update_model, upsert/delete element, upsert/delete relationship,
\* revert_to_version or import with a supplied expected_version that differs from
\* current_version fails with a version conflict reporting both values and leaves
\* every table unchanged.
C2_StaleExpectedVersion ==
    [][\A m \in DOMAIN models, ev \in ExpectedVersions :
          (/\ ev # None
           /\ ev[1] # models[m].current_version
           /\ VersionedCall(m, ev))
          => /\ result'.status = "error"
             /\ result'.error = "version_conflict"
             /\ result'.expected = ev[1]
             /\ result'.actual = models[m].current_version
             /\ UNCHANGED tables]_vars

C2_Witness ==
    /\ result.op = "import_model_csv"
    /\ result.error = "version_conflict"
    /\ result.expected = 1
    /\ result.actual = 2

\* C3: the snapshot of a model's highest-numbered version records the model's
\* current elements and relationships (with their tags) and its current name,
\* description and attributes.
C3_SnapshotIsCurrent ==
    \A m \in DOMAIN models :
        /\ <<m, models[m].current_version>> \in DOMAIN model_versions
        /\ LET snapshot == model_versions[<<m, models[m].current_version>>].snapshot
               current == _snapshot(models, model_elements, model_relationships, m)
           IN /\ snapshot.elements = current.elements
              /\ snapshot.relationships = current.relationships
              /\ snapshot.model.name = current.model.name
              /\ snapshot.model.description = current.model.description
              /\ snapshot.model.attributes = current.model.attributes

C3_Witness ==
    /\ result.status = "ok"
    /\ result.op = "add_element_tag"
    /\ <<"m1", "e1">> \in DOMAIN model_elements
    /\ model_elements[<<"m1", "e1">>].tags # EmptyDict
    /\ "m1" \in DOMAIN models
    /\ models["m1"].current_version = 3

\* C4: every successful mutating operation appends exactly one version and
\* raises current_version by exactly 1, also when the change is empty.
C4_OneVersionPerMutation ==
    [][(result'.status = "ok" /\ result'.op \in MutatingOps)
          => LET m == result'.model_id
             IN /\ m \in DOMAIN models
                /\ m \in DOMAIN models'
                /\ models'[m].current_version = models[m].current_version + 1
                /\ result'.version = models'[m].current_version
                /\ DOMAIN model_versions' =
                       DOMAIN model_versions \cup {<<m, models'[m].current_version>>}
                /\ <<m, models'[m].current_version>> \notin DOMAIN model_versions]_vars

\* update_model with no field supplied has committed: the last two snapshots
\* carry the same metadata
C4_Witness ==
    /\ result.status = "ok"
    /\ result.op = "update_model"
    /\ result.version = 2
    /\ LET before == model_versions[<<result.model_id, 1>>].snapshot
           after == model_versions[<<result.model_id, 2>>].snapshot
       IN /\ after.model.name = before.model.name
          /\ after.model.description = before.model.description
          /\ after.model.attributes = before.model.attributes

\* C7: version rows are immutable and never removed; a revert adds exactly one
\* version, numbered current_version + 1, and keeps every version after the
\* one it reverts to.
C7_HistoryAppendOnly ==
    [][/\ \A k \in DOMAIN model_versions :
             /\ k \in DOMAIN model_versions'
             /\ model_versions'[k] = model_versions[k]
       /\ (result'.status = "ok" /\ result'.op = "revert_to_version")
             => LET m == result'.model_id
                IN DOMAIN model_versions' =
                       DOMAIN model_versions \cup {<<m, models[m].current_version + 1>>}]_vars

\* a revert from version 2 to version 1 has committed version 3
C7_Witness ==
    /\ result.status = "ok"
    /\ result.op = "revert_to_version"
    /\ result.count = 1
    /\ result.version = 3
    /\ VersionNumbers(model_versions, result.model_id) = {1, 2, 3}

\* The operations that begin with _ensure_model_exists (import aside)
ExistenceCheckedOps == (VersionedOps \ {"import_model_csv"}) \cup TagOps

\* C10 (amended): on the id of a model that does not exist (never created, or
\* deleted), update_model, upsert/delete element, upsert/delete relationship,
\* tag add/remove and revert_to_version fail with a not-found error and change
\* nothing; delete_model does not fail: it returns a deleted count of 0 and
\* changes nothing.
C10_MissingModel ==
    [][\A m \in ModelIds \ DOMAIN models :
          /\ (result'.model_id = m /\ result'.op \in ExistenceCheckedOps)
                => /\ result'.status = "error"
                   /\ result'.error = "model_not_found"
                   /\ UNCHANGED tables
          /\ (result'.model_id = m /\ result'.op = "delete_model")
                => /\ result'.status = "ok"
                   /\ result'.count = 0
                   /\ UNCHANGED tables]_vars

\* an operation was called on m1 after m1 was deleted and was refused with
\* not found; the rows delete_model left behind are still there
C10_Witness ==
    /\ result.op \in MutatingOps
    /\ result.model_id = "m1"
    /\ result.error = "model_not_found"
    /\ "m1" \notin DOMAIN models
    /\ <<"m1", 1>> \in DOMAIN model_versions

\* C10 as stated: delete_model on the id of a model that does not exist fails
\* with a not-found error as well.
C10_DeleteMissingModelFails ==
    [][\A m \in ModelIds \ DOMAIN models :
          (result'.model_id = m /\ result'.op = "delete_model")
             => /\ result'.status = "error"
                /\ result'.error = "model_not_found"
                /\ UNCHANGED tables]_vars

\* The rows of a table that belong to model m: the first component of a key is
\* the model id
OwnedBy(table, m) == {k \in DOMAIN table : k[1] = m}

\* C11: after delete_model(m) succeeds the store holds no element,
\* relationship, version, lock or attribute definition of m.
C11_DeleteModelCascades ==
    [][(result'.op = "delete_model" /\ result'.status = "ok" /\ result'.count = 1)
          => LET m == result'.model_id
             IN /\ m \notin DOMAIN models'
                /\ OwnedBy(model_elements', m) = {}
                /\ OwnedBy(model_relationships', m) = {}
                /\ OwnedBy(model_versions', m) = {}
                /\ OwnedBy(model_attribute_definitions', m) = {}
                /\ m \notin DOMAIN model_locks']_vars

----------------------------------------------------------------------------
(* Properties checked under SpecGraph *)

\* The expected_version values a call on model m is not refused for
Accepted(m) == {None, Some(models[m].current_version)}

\* C8: delete_model_element on an existing element e removes e and exactly the
\* relationships of the same model whose source or target is e, reports their
\* number as relationships_deleted, and leaves every other element and
\* relationship of that model and of the other models as it was.
C8_DeleteElementCascade ==
    [][\A m \in DOMAIN models, e \in ElementIds :
          (/\ <<m, e>> \in DOMAIN model_elements
           /\ \E ev \in Accepted(m), a \in Authors : delete_model_element(m, e, ev, a))
          => LET referencing ==
                     {k \in DOMAIN model_relationships :
                         /\ k[1] = m
                         /\ e \in {model_relationships[k].source_element_id,
                                   model_relationships[k].target_element_id}}
             IN /\ result'.status = "ok"
                /\ result'.count = Cardinality(referencing)
                /\ DOMAIN model_elements' = DOMAIN model_elements \ {<<m, e>>}
                /\ \A k \in DOMAIN model_elements' :
                      model_elements'[k] = model_elements[k]
                /\ DOMAIN model_relationships' = DOMAIN model_relationships \ referencing
                /\ \A k \in DOMAIN model_relationships' :
                      model_relationships'[k] = model_relationships[k]]_vars

\* e2 of m1 was deleted together with r1 (e1 -> e2) and the self-loop r2, counted
\* once; e1 stays, and m2 keeps its copy of the graph
C8_Witness ==
    /\ result.status = "ok"
    /\ result.op = "delete_model_element"
    /\ result.model_id = "m1"
    /\ result.id = "e2"
    /\ result.count = 2
    /\ <<"m1", "e1">> \in DOMAIN model_elements
    /\ {k \in DOMAIN model_relationships : k[1] = "m1"} = {}
    /\ {k[2] : k \in {x \in DOMAIN model_relationships : x[1] = "m2"}} = {"r1", "r2"}
    /\ {k[2] : k \in {x \in DOMAIN model_elements : x[1] = "m2"}} = {"e1", "e2"}

\* C9: upsert_model_relationship whose source or target is not an element of
\* the same model fails with a not-found error naming the missing endpoint,
\* the source first, for a new and for an existing relationship id alike, and
\* leaves every table (relationships and versions included) unchanged.
C9_MissingEndpointRefused ==
    [][\A m \in DOMAIN models, src \in ElementIds, tgt \in ElementIds,
          id \in RelationshipIds :
          LET no_source == <<m, src>> \notin DOMAIN model_elements
              no_target == <<m, tgt>> \notin DOMAIN model_elements
          IN (/\ no_source \/ no_target
              /\ \E p \in RelationshipPayloads, ev \in Accepted(m), a \in Authors :
                    upsert_model_relationship(m, p, src, tgt, id, ev, a))
             => /\ result'.status = "error"
                /\ result'.error = IF no_source THEN "source_not_found"
                                   ELSE "target_not_found"
                /\ result'.id = IF no_source THEN src ELSE tgt
                /\ UNCHANGED tables]_vars

\* every relationship id of m1 is in use and e1 is not an element of m1: the
\* refused call was an update of an existing relationship
C9_Witness ==
    /\ result.op = "upsert_model_relationship"
    /\ result.model_id = "m1"
    /\ result.error \in {"source_not_found", "target_not_found"}
    /\ result.id = "e1"
    /\ <<"m1", "e1">> \notin DOMAIN model_elements
    /\ \A id \in RelationshipIds : <<"m1", id>> \in DOMAIN model_relationships

----------------------------------------------------------------------------
(* Properties checked under SpecRevert *)

\* What content equality compares of an element and of a relationship
ElementContent(id, r) ==
    [id |-> id, type_name |-> r.type_name, name |-> r.name,
     attributes |-> r.attributes, valid_from |-> r.valid_from,
     valid_to |-> r.valid_to, tags |-> r.tags]

RelationshipContent(id, r) ==
    [id |-> id, type_name |-> r.type_name, name |-> r.name,
     source_element_id |-> r.source_element_id,
     target_element_id |-> r.target_element_id,
     attributes |-> r.attributes, valid_from |-> r.valid_from,
     valid_to |-> r.valid_to, tags |-> r.tags]

\* C6: after revert_to_version(model, k) succeeds, the model's current elements
\* and relationships are content-equal to those of version k's snapshot (ids,
\* type names, names, endpoints, attributes, validity intervals and tag maps),
\* and current_version is one more than before the revert.
C6_RevertRestoresSnapshot ==
    [][(result'.status = "ok" /\ result'.op = "revert_to_version")
          => LET m == result'.model_id
                 k == result'.count
                 snapshot == get_version(model_versions, m, k).snapshot
             IN /\ {ElementContent(key[2], model_elements'[key]) :
                       key \in {x \in DOMAIN model_elements' : x[1] = m}}
                   = {ElementContent(snapshot.elements[i].id, snapshot.elements[i].row) :
                         i \in DOMAIN snapshot.elements}
                /\ {RelationshipContent(key[2], model_relationships'[key]) :
                       key \in {x \in DOMAIN model_relationships' : x[1] = m}}
                   = {RelationshipContent(snapshot.relationships[i].id,
                                          snapshot.relationships[i].row) :
                         i \in DOMAIN snapshot.relationships}
                /\ models'[m].current_version = models[m].current_version + 1]_vars

----------------------------------------------------------------------------
(* Properties checked under SpecConc *)

\* C5: of two callers that mutate the same model at once, each supplying as
\* expected_version the version v that was current when it started, at most one
\* commits; the other is rejected as stale.
C5_AtMostOneWriterCommits ==
    \A c1 \in DOMAIN pc, c2 \in DOMAIN pc :
        (/\ c1 # c2
         /\ pc[c1] = "done"
         /\ pc[c2] = "done"
         /\ local[c1].model_id = local[c2].model_id
         /\ local[c1].expected_version = Some(local[c1].started_at)
         /\ local[c2].expected_version = Some(local[c2].started_at)
         /\ local[c1].started_at = local[c2].started_at)
        => ~(/\ local[c1].returned.status = "ok"
             /\ local[c2].returned.status = "ok")

----------------------------------------------------------------------------
(* Properties checked under SpecDangling *)

\* C12: delete_model_element on an element id the model does not hold fails
\* with not-found and deletes no relationship, also when relationships name
\* that id; revert_to_version to a version number the model does not have fails
\* with not-found; both leave every table unchanged.
C12_NoPartialCommit ==
    [][\A m \in DOMAIN models :
          /\ \A id \in ElementIds :
                (/\ <<m, id>> \notin DOMAIN model_elements
                 /\ \E ev \in Accepted(m), a \in Authors :
                       delete_model_element(m, id, ev, a))
                => /\ result'.status = "error"
                   /\ result'.error = "element_not_found"
                   /\ result'.id = id
                   /\ UNCHANGED tables
          /\ \A v \in 1..(MaxDanglingVersions + 1) :
                (/\ <<m, v>> \notin DOMAIN model_versions
                 /\ \E ev \in Accepted(m), a \in Authors :
                       revert_to_version(m, v, ev, a))
                => /\ result'.status = "error"
                   /\ result'.error = "version_not_found"
                   /\ UNCHANGED tables]_vars

\* e2 was refused as not found while r1 and r2, which name it, are still stored
C12_Witness ==
    /\ result.op = "delete_model_element"
    /\ result.error = "element_not_found"
    /\ result.id = "e2"
    /\ <<"m1", "e2">> \notin DOMAIN model_elements
    /\ {k[2] : k \in OwnedBy(model_relationships, "m1")} = {"r1", "r2"}

----------------------------------------------------------------------------
(* Properties checked under SpecSearch *)

\* The element an upsert worked on is among the rows a search of its model by
\* its name returns under the limit
FoundByName(elems, model_id, element_id, limit) ==
    LET found == _search_elements(elems, model_id,
                                  Some(elems[<<model_id, element_id>>].name), limit)
    IN \E i \in 1..Len(found) : found[i] = element_id

\* C13 (amended): after upsert_model_element succeeds, a search of that model
\* by the element's name returns the element whenever the elements matching the
\* search are no more than the search's limit; an upsert with an id already
\* present replaces the stored element (same set of elements) and reports
\* 'updated', and it reports 'created' exactly when the id was not present.
C13_UpsertThenSearch ==
    [][(result'.op = "upsert_model_element" /\ result'.status = "ok")
          => LET m == result'.model_id
                 id == result'.id
                 key == <<m, id>>
                 existed == key \in DOMAIN model_elements
                 name == model_elements'[key].name
             IN /\ \A limit \in SearchLimits :
                      Len(_search_elements(model_elements', m, Some(name), None))
                          <= SearchLimit(limit)
                      => FoundByName(model_elements', m, id, limit)
                /\ result'.outcome = IF existed THEN "updated" ELSE "created"
                /\ DOMAIN model_elements' = DOMAIN model_elements \cup {key}
                /\ existed => Cardinality(DOMAIN model_elements')
                                 = Cardinality(DOMAIN model_elements)]_vars

\* e2 was upserted next to e1, both match its name, and a search by that name
\* returns both
C13_Witness ==
    /\ result.op = "upsert_model_element"
    /\ result.status = "ok"
    /\ result.id = "e2"
    /\ result.model_id = "m1"
    /\ <<"m1", "e2">> \in DOMAIN model_elements
    /\ model_elements[<<"m1", "e2">>].name = "custom"
    /\ _search_elements(model_elements, "m1", Some("custom"), None) = <<"e1", "e2">>

\* C13 as stated: after upsert_model_element succeeds, every search of that
\* model by the element's name returns the element.
C13_SearchAlwaysFinds ==
    [][(result'.op = "upsert_model_element" /\ result'.status = "ok")
          => \A limit \in SearchLimits :
                FoundByName(model_elements', result'.model_id, result'.id, limit)]_vars

----------------------------------------------------------------------------
(* Properties checked under SpecUpsert *)

\* The fields of a stored row that an upsert takes from its call
CallFields(row) ==
    [type_name |-> row.type_name, name |-> row.name, attributes |-> row.attributes,
     valid_from |-> row.valid_from, valid_to |-> row.valid_to]

\* The fields a call's payload asks for: omitted attributes are the empty map
PayloadFields(p) ==
    [type_name |-> p.type_name, name |-> p.name,
     attributes |-> OrDefault(p.attributes, EmptyDict),
     valid_from |-> p.valid_from, valid_to |-> p.valid_to]

\* C14: an upsert of an element or a relationship under an id the model holds
\* replaces type, name, attributes, endpoints and validity interval by the
\* call's values (omitted attributes become the empty map, omitted dates null)
\* and keeps the row's creation timestamp and tag map; an upsert without an id
\* works on a generated id that no row of the model carries, and creates it.
C14_UpsertReplacesAndCarriesOver ==
    [][/\ \A p \in ElementPayloads, id \in ElementIds, a \in Authors :
             LET key == <<"m1", id>>
             IN (/\ key \in DOMAIN model_elements
                 /\ upsert_model_element("m1", p, id, None, a)
                 /\ result'.status = "ok")
                => /\ CallFields(model_elements'[key]) = PayloadFields(p)
                   /\ model_elements'[key].created_at = model_elements[key].created_at
                   /\ model_elements'[key].tags = model_elements[key].tags
                   /\ result'.outcome = "updated"
       /\ \A p \in RelationshipPayloads, tgt \in ElementIds, id \in RelationshipIds,
             a \in Authors :
             LET key == <<"m1", id>>
             IN (/\ key \in DOMAIN model_relationships
                 /\ upsert_model_relationship("m1", p, "e1", tgt, id, None, a)
                 /\ result'.status = "ok")
                => /\ CallFields(model_relationships'[key]) = PayloadFields(p)
                   /\ model_relationships'[key].source_element_id = "e1"
                   /\ model_relationships'[key].target_element_id = tgt
                   /\ model_relationships'[key].created_at
                         = model_relationships[key].created_at
                   /\ model_relationships'[key].tags = model_relationships[key].tags
                   /\ result'.outcome = "updated"
       /\ \A p \in ElementPayloads, a \in Authors :
             \A id \in UpsertIds(model_elements, ElementIds, None) :
                (upsert_model_element("m1", p, id, None, a) /\ result'.status = "ok")
                => /\ \A k \in DOMAIN model_elements : k[2] # id
                   /\ DOMAIN model_elements' = DOMAIN model_elements \cup {<<"m1", id>>}
                   /\ result'.outcome = "created"
       /\ \A p \in RelationshipPayloads, tgt \in ElementIds, a \in Authors :
             \A id \in UpsertIds(model_relationships, RelationshipIds, None) :
                (/\ upsert_model_relationship("m1", p, "e1", tgt, id, None, a)
                 /\ result'.status = "ok")
                => /\ \A k \in DOMAIN model_relationships : k[2] # id
                   /\ DOMAIN model_relationships'
                         = DOMAIN model_relationships \cup {<<"m1", id>>}
                   /\ result'.outcome = "created"]_vars

\* The tagged relationship r1 has been upserted again, without attributes and
\* dates, after the time it was created
C14_Witness ==
    /\ result.op = "upsert_model_relationship"
    /\ result.outcome = "updated"
    /\ result.id = "r1"
    /\ <<"m1", "r1">> \in DOMAIN model_relationships
    /\ model_relationships[<<"m1", "r1">>].tags # EmptyDict
    /\ model_relationships[<<"m1", "r1">>].attributes = EmptyDict
    /\ model_relationships[<<"m1", "r1">>].valid_from = NoDate
    /\ model_relationships[<<"m1", "r1">>].created_at
          < model_relationships[<<"m1", "r1">>].updated_at

----------------------------------------------------------------------------
(* Properties checked under SpecTags *)

\* The payloads that name one target, and what they name
OneTarget == {p \in TagPayloads : (p.element_id = None) # (p.relationship_id = None)}
TargetType(p) == IF p.element_id # None THEN "element" ELSE "relationship"
TargetKey(p) ==
    <<p.model_id, IF p.element_id # None THEN p.element_id[1] ELSE p.relationship_id[1]>>
TargetTable(p, elems, rels) == IF p.element_id # None THEN elems ELSE rels

\* The dictionary of the payload's model defines the payload's key for the
\* payload's target kind with is_tag = true
IsTagKey(p) ==
    \E d \in DOMAIN model_attribute_definitions :
       /\ d = <<p.model_id, TargetType(p), p.key>>
       /\ model_attribute_definitions[d].is_tag = TRUE

\* C15: add_tag with a key the model's dictionary does not define for the
\* target kind with is_tag = true fails with an invalid-tag-key error naming
\* the model and the key and changes no table; with the key so defined, add_tag
\* on a stored element or relationship succeeds and sets tags[key] to the value.
C15_AddTagNeedsTagKey ==
    [][\A p \in OneTarget :
          (p.model_id \in DOMAIN models /\ add_tag(p))
          => IF ~IsTagKey(p)
             THEN /\ result'.status = "error"
                  /\ result'.error = "invalid_tag_key"
                  /\ result'.model_id = p.model_id
                  /\ result'.id = p.key
                  /\ UNCHANGED tables
             ELSE TargetKey(p) \in DOMAIN TargetTable(p, model_elements, model_relationships)
                  => /\ result'.status = "ok"
                     /\ LET tags == TargetTable(p, model_elements',
                                                model_relationships')[TargetKey(p)].tags
                        IN p.key \in DOMAIN tags /\ tags[p.key] = p.value]_vars

\* env has been set on e1 while the dictionary holds env for relationships
\* without is_tag
C15_Witness ==
    /\ result.op = "add_element_tag"
    /\ result.status = "ok"
    /\ <<"m1", "e1">> \in DOMAIN model_elements
    /\ model_elements[<<"m1", "e1">>].tags = ("env" :> "prod")
    /\ <<"m1", "relationship", "env">> \in DOMAIN model_attribute_definitions
    /\ ~model_attribute_definitions[<<"m1", "relationship", "env">>].is_tag

\* C16: remove_tag on a stored element or relationship with a key the model's
\* dictionary does not define for the target kind with is_tag = true fails with
\* an invalid-tag-key error and changes no table.
C16_RemoveTagNeedsTagKey ==
    [][\A p \in OneTarget :
          (/\ p.model_id \in DOMAIN models
           /\ TargetKey(p) \in DOMAIN TargetTable(p, model_elements, model_relationships)
           /\ ~IsTagKey(p)
           /\ remove_tag(p))
          => /\ result'.status = "error"
             /\ result'.error = "invalid_tag_key"
             /\ UNCHANGED tables]_vars

\* The rows of a table other than the one under key k
OtherRows(table, k) == [j \in DOMAIN table \ {k} |-> table[j]]

\* C17: remove_tag on a stored element or relationship whose tag map does not
\* hold the key succeeds and leaves that tag map as it was; every remove_tag
\* leaves a tag map without the key, so a second one changes nothing more; the
\* fields and tag maps of all other elements and relationships stay as they were.
C17_RemoveAbsentTagIsNoOp ==
    [][\A p \in OneTarget :
          LET k == TargetKey(p)
              before == TargetTable(p, model_elements, model_relationships)
              after == TargetTable(p, model_elements', model_relationships')
              untouched == TargetTable(p, model_relationships, model_elements)
              untouched_after == TargetTable(p, model_relationships', model_elements')
          IN (p.model_id \in DOMAIN models /\ k \in DOMAIN before /\ remove_tag(p))
             => /\ result'.status = "ok"
                /\ k \in DOMAIN after
                /\ p.key \notin DOMAIN before[k].tags => after[k].tags = before[k].tags
                /\ p.key \notin DOMAIN after[k].tags
                /\ \A j \in DOMAIN before[k].tags \ {p.key} :
                      j \in DOMAIN after[k].tags /\ after[k].tags[j] = before[k].tags[j]
                /\ OtherRows(after, k) = OtherRows(before, k)
                /\ untouched_after = untouched]_vars

\* tier, which e1 does not carry, has been removed from e1, which carries env
C17_Witness ==
    /\ result.op = "remove_element_tag"
    /\ result.status = "ok"
    /\ result.id = "e1"
    /\ <<"m1", "e1">> \in DOMAIN model_elements
    /\ model_elements[<<"m1", "e1">>].tags = ("env" :> "prod")
    /\ <<"m1", "e2">> \in DOMAIN model_elements

\* C18: add_tag (with a defined tag key) and remove_tag on a stored element or
\* relationship, invoked with an expected_version that differs from the model's
\* current_version, fail with a version conflict and change no table.
C18_TagOpsCheckExpectedVersion ==
    [][\A p \in OneTarget :
          (/\ p.model_id \in DOMAIN models
           /\ p.expected_version # None
           /\ p.expected_version[1] # models[p.model_id].current_version
           /\ TargetKey(p) \in DOMAIN TargetTable(p, model_elements, model_relationships)
           /\ (IsTagKey(p) /\ add_tag(p)) \/ remove_tag(p))
          => /\ result'.status = "error"
             /\ result'.error = "version_conflict"
             /\ UNCHANGED tables]_vars

----------------------------------------------------------------------------
(* Properties checked under SpecLock *)

\* The tables other than model_locks
unlocked_tables == <<models, model_elements, model_relationships, model_versions, model_attribute_definitions>>

\* The lock rows of the models other than m
OtherLocks(locks, m) == Without(locks, {m})

\* C19: acquire_lock on an unlocked model records the owner as holder; by the
\* holder it succeeds and leaves holder and acquisition time as they were; by
\* another owner without force it fails with a locked error and the lock row is
\* unchanged; by another owner with force it succeeds and the owner becomes
\* the holder. No other lock and no other table changes.
C19_AcquireLock ==
    [][\A m \in DOMAIN models, owner \in Owners, force \in BOOLEAN :
          acquire_lock(m, owner, force)
          => /\ UNCHANGED unlocked_tables
             /\ OtherLocks(model_locks', m) = OtherLocks(model_locks, m)
             /\ IF m \notin DOMAIN model_locks
                THEN /\ result'.status = "ok"
                     /\ m \in DOMAIN model_locks'
                     /\ model_locks'[m].owner = owner
                ELSE IF model_locks[m].owner = owner
                THEN /\ result'.status = "ok"
                     /\ m \in DOMAIN model_locks'
                     /\ model_locks'[m].owner = owner
                     /\ model_locks'[m].acquired_at = model_locks[m].acquired_at
                     /\ result'.acquired_at = model_locks[m].acquired_at
                ELSE IF ~force
                THEN /\ result'.status = "error"
                     /\ result'.error = "locked"
                     /\ model_locks' = model_locks
                ELSE /\ result'.status = "ok"
                     /\ m \in DOMAIN model_locks'
                     /\ model_locks'[m].owner = owner]_vars

\* ann has taken the lock of m1 again after the model was updated
C19_Witness ==
    /\ result.op = "acquire_lock"
    /\ result.outcome = "already_locked"
    /\ result.owner = "ann"
    /\ "m1" \in DOMAIN model_locks
    /\ model_locks["m1"].owner = "ann"
    /\ model_locks["m1"].acquired_at < CURRENT_TIMESTAMP(model_versions)

\* The owner release_lock compares with the holder: absent when the caller
\* gives none or the empty text
Named(owner) == owner # None /\ owner # Some("")

\* C20 (amended): release_lock with a non-empty owner that differs from the
\* holder and force not set fails with a lock-owner-mismatch error and the lock
\* stays as it was; with the holder's own id, with force, or with no owner or
\* an empty one, the lock is removed and get_lock then reports the model as not
\* locked; on a model with no lock it succeeds reporting not-locked; no other
\* lock and no other table changes.
C20_ReleaseLock ==
    [][\A m \in DOMAIN models, owner \in OwnersGiven, force \in BOOLEAN :
          release_lock(m, owner, force)
          => /\ UNCHANGED unlocked_tables
             /\ OtherLocks(model_locks', m) = OtherLocks(model_locks, m)
             /\ IF m \notin DOMAIN model_locks
                THEN /\ result'.status = "ok"
                     /\ result'.outcome = "not_locked"
                     /\ model_locks' = model_locks
                ELSE IF Named(owner) /\ owner[1] # model_locks[m].owner /\ ~force
                THEN /\ result'.status = "error"
                     /\ result'.error = "lock_owner_mismatch"
                     /\ model_locks' = model_locks
                ELSE /\ result'.status = "ok"
                     /\ result'.outcome = "released"
                     /\ m \notin DOMAIN model_locks'
                     /\ get_lock(models', model_locks', m).locked = FALSE]_vars

\* bob's lock on m1 has been released while ann still holds m2
C20_Witness ==
    /\ result.op = "release_lock"
    /\ result.outcome = "released"
    /\ result.model_id = "m1"
    /\ result.owner = "bob"
    /\ "m1" \notin DOMAIN model_locks
    /\ "m2" \in DOMAIN model_locks
    /\ model_locks["m2"].owner = "ann"

\* C20 as stated: release_lock with any owner that differs from the holder and
\* force not set fails with a lock-owner-mismatch error and the lock stays held
\* by the same holder.
C20_MismatchAlwaysFails ==
    [][\A m \in DOMAIN models, owner \in OwnersGiven \ {None} :
          (/\ m \in DOMAIN model_locks
           /\ owner[1] # model_locks[m].owner
           /\ release_lock(m, owner, FALSE))
          => /\ result'.status = "error"
             /\ result'.error = "lock_owner_mismatch"
             /\ model_locks' = model_locks]_vars

----------------------------------------------------------------------------
(* Properties checked under SpecLockConc *)

\* The rows of model_locks that belong to model m
LockRows(locks, m) ==
    {[model_id |-> k, owner |-> locks[k].owner, acquired_at |-> locks[k].acquired_at] :
        k \in {j \in DOMAIN locks : j = m}}

\* The call of c was a non-forced acquire_lock on m that found no lock row
AcquiredUnlocked(c, m) ==
    /\ pc[c] = "done"
    /\ local[c].op = "acquire_lock"
    /\ local[c].model_id = m
    /\ ~local[c].force
    /\ local[c].row = None

\* C21: in every state, whatever the interleaving of the callers' acquire_lock
\* and release_lock calls, a model has at most one lock row and one holder; of
\* two non-forced acquire_lock calls by different owners that both found the
\* model unlocked, at most one succeeds.
C21_AtMostOneHolder ==
    \A m \in ModelIds :
        /\ Cardinality(LockRows(model_locks, m)) <= 1
        /\ Cardinality({row.owner : row \in LockRows(model_locks, m)}) <= 1
        /\ \A c1 \in DOMAIN pc, c2 \in DOMAIN pc :
              (/\ c1 # c2
               /\ AcquiredUnlocked(c1, m)
               /\ AcquiredUnlocked(c2, m)
               /\ local[c1].owner # local[c2].owner)
              => ~(/\ local[c1].returned.status = "ok"
                   /\ local[c2].returned.status = "ok")

\* Both callers found m1 unlocked; A's INSERT was committed and B's was refused
C21_Witness ==
    /\ DOMAIN pc = Callers
    /\ AcquiredUnlocked("A", "m1")
    /\ AcquiredUnlocked("B", "m1")
    /\ local["A"].owner = "ann"
    /\ local["B"].owner = "bob"
    /\ local["A"].returned.status = "ok"
    /\ local["B"].returned.error = "integrity_error"
    /\ "m1" \in DOMAIN model_locks
    /\ model_locks["m1"].owner = "ann"

----------------------------------------------------------------------------
(* Properties checked under SpecAdvisory *)

LockOps == {"acquire_lock", "release_lock"}
LockErrors == {"locked", "lock_owner_mismatch", "integrity_error"}

\* C22: a mutating operation leaves the lock rows as they are and never fails
\* for a reason that has to do with the lock: update_model and
\* upsert_model_element succeed exactly when the model exists and the
\* expected_version is accepted, delete_model_element exactly when, in
\* addition, the element is stored, whoever holds the lock; acquire_lock and
\* release_lock change no table but model_locks.
C22_LockIsAdvisory ==
    [][/\ result'.op \in MutatingOps
          => /\ model_locks' = model_locks
             /\ result'.error \notin LockErrors
       /\ result'.op \in LockOps => UNCHANGED unlocked_tables
       /\ \A ev \in ExpectedVersions, a \in Authors :
             LET accepted == "m1" \in DOMAIN models /\ ev \in Accepted("m1")
             IN /\ \A p \in ElementPayloads :
                      upsert_model_element("m1", p, "e1", ev, a)
                      => (result'.status = "ok") = accepted
                /\ \A p \in ModelPatches :
                      update_model("m1", p, ev, a)
                      => (result'.status = "ok") = accepted
                /\ delete_model_element("m1", "e1", ev, a)
                   => (result'.status = "ok")
                         = (accepted /\ <<"m1", "e1">> \in DOMAIN model_elements)]_vars

\* alice has upserted e1 while bob holds the lock he took before that
C22_Witness ==
    /\ result.op = "upsert_model_element"
    /\ result.status = "ok"
    /\ "m1" \in DOMAIN model_locks
    /\ model_locks["m1"].owner = "bob"
    /\ model_locks["m1"].acquired_at < CURRENT_TIMESTAMP(model_versions) - 1
    /\ model_versions[<<"m1", models["m1"].current_version>>].author = "alice"

----------------------------------------------------------------------------
(* Properties checked under SpecValidate *)

\* The catalogs validate_model is meant to compare type names with
KnownElementTypes == SelectNames(MetamodelDb, "elements")[1]
KnownRelationshipTypes == SelectNames(MetamodelDb, "relationships")[1]

\* How many issues of a list carry the code and the id
CountIssues(issues, code, id) ==
    Cardinality({i \in 1..Len(issues) : issues[i].code = code /\ issues[i].id = id})

\* The relationships of model m whose two endpoints are elements of m
WithBothEndpoints(m) ==
    {k \in OwnedBy(model_relationships, m) :
        /\ <<m, model_relationships[k].source_element_id>> \in DOMAIN model_elements
        /\ <<m, model_relationships[k].target_element_id>> \in DOMAIN model_elements}

\* C23: validate_model of a stored model returns its issues as data: it does
\* not raise, is_valid is true exactly when no issue has severity error, and
\* the errors and warnings counts add up to the number of issues.
C23_ValidateReturnsData ==
    [][\A m \in DOMAIN models :
          validate_model(m)
          => /\ result'.status = "ok"
             /\ result'.is_valid = (WithSeverity(result'.issues, "error") = {})
             /\ result'.errors + result'.warnings = Len(result'.issues)]_vars

\* C24: validate_model of a stored model reports exactly one
\* UNKNOWN_ELEMENT_TYPE error for each element whose lower-cased type name is
\* not in the catalog, and none for the other elements.
C24_UnknownElementType ==
    [][\A m \in DOMAIN models :
          validate_model(m)
          => /\ result'.status = "ok"
             /\ \A k \in OwnedBy(model_elements, m) :
                   CountIssues(result'.issues, "UNKNOWN_ELEMENT_TYPE", k[2])
                      = IF lower(model_elements[k].type_name) \in KnownElementTypes
                        THEN 0 ELSE 1]_vars

\* C25: validate_model of a stored model reports MISSING_REL_ENDPOINT for every
\* relationship with a source or target that is no element of the model, and
\* for no relationship whose two endpoints are elements of it.
C25_MissingRelEndpoint ==
    [][\A m \in DOMAIN models :
          validate_model(m)
          => /\ result'.status = "ok"
             /\ \A k \in OwnedBy(model_relationships, m) :
                   (CountIssues(result'.issues, "MISSING_REL_ENDPOINT", k[2]) > 0)
                      = (k \notin WithBothEndpoints(m))]_vars

\* C26: in the issues that validate_model builds from the stored rows and the
\* catalog, a relationship with both endpoints stored has a REL_AFTER_SOURCE
\* warning whenever its valid_to and the source's valid_to are set and its own
\* is later, and a REL_AFTER_TARGET warning likewise for the target, whether or
\* not its valid_from is set.
C26_RelAfterEndpoint ==
    \A m \in DOMAIN models :
        LET issues == Issues(model_elements, model_relationships, m,
                             KnownElementTypes, KnownRelationshipTypes)
        IN \A k \in WithBothEndpoints(m) :
              LET rel == model_relationships[k]
                  src == model_elements[<<m, rel.source_element_id>>]
                  tgt == model_elements[<<m, rel.target_element_id>>]
              IN /\ (rel.valid_to # NoDate /\ src.valid_to # NoDate
                        /\ rel.valid_to > src.valid_to)
                    => CountIssues(issues, "REL_AFTER_SOURCE", k[2]) > 0
                 /\ (rel.valid_to # NoDate /\ tgt.valid_to # NoDate
                        /\ rel.valid_to > tgt.valid_to)
                    => CountIssues(issues, "REL_AFTER_TARGET", k[2]) > 0

\* C27: validate_model of a stored model reports, for a relationship with both
\* endpoints stored and a valid_from, REL_BEFORE_SOURCE exactly when the
\* source's valid_from is set and later, and REL_BEFORE_TARGET exactly when the
\* target's is; a relationship without valid_from has neither.
C27_RelBeforeEndpoint ==
    [][\A m \in DOMAIN models :
          validate_model(m)
          => /\ result'.status = "ok"
             /\ \A k \in WithBothEndpoints(m) :
                   LET rel == model_relationships[k]
                       src == model_elements[<<m, rel.source_element_id>>]
                       tgt == model_elements[<<m, rel.target_element_id>>]
                   IN /\ (CountIssues(result'.issues, "REL_BEFORE_SOURCE", k[2]) > 0)
                         = (/\ rel.valid_from # NoDate
                            /\ src.valid_from # NoDate
                            /\ rel.valid_from < src.valid_from)
                      /\ (CountIssues(result'.issues, "REL_BEFORE_TARGET", k[2]) > 0)
                         = (/\ rel.valid_from # NoDate
                            /\ tgt.valid_from # NoDate
                            /\ rel.valid_from < tgt.valid_from)]_vars

----------------------------------------------------------------------------
(* Properties checked under SpecPath *)

\* The relationship graph of a model: its edges and its nodes (the elements of
\* the model and the endpoints of its relationships)
GraphEdges(model_id) ==
    {Edge(model_relationships, k) : k \in {q \in DOMAIN model_relationships : q[1] = model_id}}
GraphNodes(model_id) ==
    {k[2] : k \in {q \in DOMAIN model_elements : q[1] = model_id}}
    \cup {e[1] : e \in GraphEdges(model_id)} \cup {e[2] : e \in GraphEdges(model_id)}

\* The nodes a forward-directed path of at most k edges leads to from source
RECURSIVE Within(_, _, _)
Within(edges, source, k) ==
    IF k = 0 THEN {source}
    ELSE LET near == Within(edges, source, k - 1)
         IN near \cup {e[2] : e \in {x \in edges : x[1] \in near}}

\* The lengths, up to limit, within which target is reached from source
Distances(edges, source, target, limit) ==
    {k \in 0..limit : target \in Within(edges, source, k)}
Least(S) == CHOOSE k \in S : \A j \in S : k <= j

\* path is a chain of edges of the graph that leads from source to target
IsChain(path, edges, source, target) ==
    IF Len(path) = 0 THEN source = target
    ELSE /\ path[1].from = source
         /\ path[Len(path)].to = target
         /\ \A i \in 1..Len(path) :
               <<path[i].from, path[i].to, path[i].relationship_type>> \in edges
         /\ \A i \in 1..(Len(path) - 1) : path[i].to = path[i + 1].from

\* The call path_exists has returned from, and the depth limit it was asked
\* for, brought into 1..10
Returned == result.op = "path_exists" /\ result.status = "ok"
DepthLimit ==
    IF result.max_depth < 1 THEN 1 ELSE IF result.max_depth > 10 THEN 10
    ELSE result.max_depth

\* C28: path_exists returns exists = true exactly when the graph has a
\* forward-directed path from source to target of at most clamp(max_depth, 1, 10)
\* edges; the depth it then reports is the length of a shortest such path, and
\* the path it reports is a chain of existing edges from source to target with
\* exactly that many steps
C28_PathExistsShortest ==
    Returned =>
       LET edges == GraphEdges(result.model_id)
           dist == Distances(edges, result.source, result.target, DepthLimit)
       IN /\ result.exists = (dist # {})
          /\ result.exists =>
                /\ result.depth = Some(Least(dist))
                /\ Len(result.path) = Least(dist)
                /\ IsChain(result.path, edges, result.source, result.target)
          /\ ~result.exists => result.depth = None /\ result.path = <<>>

\* path_exists has found e2 two steps away from e1, by way of e3, in a graph
\* where e3 also leads back to e1
C28_Witness ==
    /\ Returned
    /\ result.source = "e1" /\ result.target = "e2"
    /\ result.exists
    /\ result.depth = Some(2)
    /\ result.path = <<[from |-> "e1", to |-> "e3", relationship_type |-> "Serving"],
                       [from |-> "e3", to |-> "e2", relationship_type |-> "Serving"]>>
    /\ <<"e3", "e1", "Serving">> \in GraphEdges("m1")

\* The cycle e1 -> e2 -> e1 and nothing else
IsTwoCycle(edges) == {<<e[1], e[2]>> : e \in edges} = {<<"e1", "e2">>, <<"e2", "e1">>}

\* C29: path_exists returns on every graph, cycles, self-loops and parallel
\* edges included; the search states it enqueues are at most (number of nodes,
\* the source counted among them) x (clamped max depth + 1); on the graph
\* e1 -> e2 -> e1 a query from e1 to a node that is not reached returns
\* exists = false
C29_PathExistsTerminates ==
    Returned =>
       LET edges == GraphEdges(result.model_id)
           nodes == GraphNodes(result.model_id) \cup {result.source}
       IN /\ result.enqueued <= Cardinality(nodes) * (DepthLimit + 1)
          /\ (IsTwoCycle(edges) /\ result.source = "e1"
                /\ result.target \notin {"e1", "e2"}) => ~result.exists

\* path_exists has gone round the cycle e1 -> e2 -> e1 as far as depth 10, one
\* search state per depth, and has answered that there is no path
C29_Witness ==
    /\ Returned
    /\ result.source = "e1" /\ result.target = "n10"
    /\ ~result.exists
    /\ result.enqueued = 11
    /\ IsTwoCycle(GraphEdges("m1"))

\* C30: path_exists with source equal to target returns exists = true,
\* depth = 0 and an empty path, whatever the graph and whatever max_depth
C30_PathToItself ==
    (Returned /\ result.source = result.target) =>
       /\ result.exists
       /\ result.depth = Some(0)
       /\ result.path = <<>>

\* path_exists has answered a query from e1 to e1, asked with max_depth 0, in
\* a model where e1 has a self-loop and lies on the cycle e1 -> e2 -> e1
C30_Witness ==
    /\ Returned
    /\ result.source = "e1" /\ result.target = "e1"
    /\ result.max_depth = 0
    /\ result.exists
    /\ {<<"e1", "e1", "Serving">>, <<"e1", "e2", "Serving">>, <<"e2", "e1", "Serving">>}
          \subseteq GraphEdges("m1")

----------------------------------------------------------------------------
(* Properties checked under SpecNeighbors *)

\* The call neighbors has returned from, and the rows of the relationships it
\* returned
ReturnedNeighbors == result.op = "neighbors" /\ result.status = "ok"
ReturnedRows ==
    {model_relationships[<<result.model_id, result.relationships[i]>>] :
        i \in DOMAIN result.relationships}
OtherEnd(row, origin) ==
    IF row.source_element_id = origin THEN row.target_element_id
    ELSE row.source_element_id

----------------------------------------------------------------------------
(* Properties checked under SpecSlice *)

\* The call temporal_slice has returned from, the ids of a list, and the rows of
\* a table whose validity interval holds the date asked for
ReturnedSlice == result.op = "temporal_slice" /\ result.status = "ok"
Ids(list) == {list[i] : i \in DOMAIN list}
Contains(row, d) ==
    /\ row.valid_from = NoDate \/ row.valid_from <= d
    /\ row.valid_to = NoDate \/ row.valid_to >= d
Containing(table, model_id, d) ==
    {k[2] : k \in {q \in DOMAIN table : q[1] = model_id /\ Contains(table[q], d)}}

\* C32 as stated: temporal_slice, asked without a layer, returns exactly the
\* elements and exactly the relationships whose validity interval holds the date
C32_SliceIsExact ==
    (ReturnedSlice /\ result.layer = None) =>
       /\ Ids(result.elements) = Containing(model_elements, result.model_id, result.valid_at)
       /\ Ids(result.relationships)
             = Containing(model_relationships, result.model_id, result.valid_at)

\* C32: temporal_slice returns only elements and only relationships whose
\* validity interval holds the date (a null bound is open); it returns all such
\* relationships when they are no more than relationship_limit, and all such
\* elements when no layer is given and they are no more than element_limit;
\* otherwise the lists, ordered by id, are cut off at the limits. The two lists
\* are filtered independently of each other
C32_SliceWithinLimits ==
    ReturnedSlice =>
       LET elements == Containing(model_elements, result.model_id, result.valid_at)
           relationships == Containing(model_relationships, result.model_id, result.valid_at)
       IN /\ Ids(result.elements) \subseteq elements
          /\ Ids(result.relationships) \subseteq relationships
          /\ Len(result.elements) = Cardinality(Ids(result.elements))
          /\ Len(result.relationships) = Cardinality(Ids(result.relationships))
          /\ (result.layer = None /\ Cardinality(elements) <= result.element_limit)
                => Ids(result.elements) = elements
          /\ Cardinality(elements) > result.element_limit
                => Len(result.elements) <= result.element_limit
          /\ IF Cardinality(relationships) <= result.relationship_limit
             THEN Ids(result.relationships) = relationships
             ELSE Len(result.relationships) = result.relationship_limit

\* A slice at date 3 without limits holds r1, valid from 1 with no end, and
\* e2, but not e1, the source of r1, which was valid from 1 to 2
C32_Witness ==
    /\ ReturnedSlice
    /\ result.valid_at = 3
    /\ result.layer = None
    /\ result.element_limit = 1000 /\ result.relationship_limit = 1000
    /\ <<"m1", "e1">> \in DOMAIN model_elements
    /\ model_elements[<<"m1", "e1">>].valid_to = 2
    /\ <<"m1", "r1">> \in DOMAIN model_relationships
    /\ model_relationships[<<"m1", "r1">>].source_element_id = "e1"
    /\ result.elements = <<"e2">>
    /\ result.relationships = <<"r1", "r2">>

----------------------------------------------------------------------------
(* Properties checked under SpecReport *)

\* The undirected degree of an element: 1 for each relationship end that names it
Ends(model_id, id) ==
    {<<k, "source">> : k \in {q \in DOMAIN model_relationships :
                                 q[1] = model_id
                                 /\ model_relationships[q].source_element_id = id}}
    \cup {<<k, "target">> : k \in {q \in DOMAIN model_relationships :
                                      q[1] = model_id
                                      /\ model_relationships[q].target_element_id = id}}
ElementsOf(model_id) == {k[2] : k \in {q \in DOMAIN model_elements : q[1] = model_id}}

\* C33: generate_report lists at most 10 elements as top connected, ordered by
\* undirected degree descending (a self-loop adds 2), ties broken by element id
\* ascending, and no element left out has a higher degree than one listed
C33_TopConnected ==
    (result.op = "generate_report" /\ result.model_id \in DOMAIN models) =>
       LET top == result.top_connected
           listed == {top[i].element_id : i \in DOMAIN top}
           all == ElementsOf(result.model_id)
           deg(id) == Cardinality(Ends(result.model_id, id))
       IN /\ result.status = "ok"
          /\ Len(top) = Min(10, Cardinality(all))
          /\ listed \subseteq all /\ Cardinality(listed) = Len(top)
          /\ \A i \in DOMAIN top : top[i].degree = deg(top[i].element_id)
          /\ \A i \in DOMAIN top, j \in DOMAIN top :
                i < j => \/ top[i].degree > top[j].degree
                         \/ /\ top[i].degree = top[j].degree
                            /\ IdRank(top[i].element_id) < IdRank(top[j].element_id)
          /\ \A a \in all \ listed, b \in listed : deg(a) <= deg(b)

----------------------------------------------------------------------------
(* Properties checked under SpecLive *)

\* C34: in every state reached by the live operations, the source and the
\* target of every relationship are ids of elements of the same model
C34_ReferentialIntegrity ==
    \A k \in DOMAIN model_relationships :
       /\ <<k[1], model_relationships[k].source_element_id>> \in DOMAIN model_elements
       /\ <<k[1], model_relationships[k].target_element_id>> \in DOMAIN model_elements

\* delete_model_element has taken e1 out of m1 together with the one
\* relationship that named it, so that no relationship of m1 is left
C34_Witness ==
    /\ result.op = "delete_model_element"
    /\ result.status = "ok"
    /\ result.model_id = "m1"
    /\ result.id = "e1"
    /\ result.count = 1
    /\ <<"m1", "e1">> \notin DOMAIN model_elements
    /\ <<"m1", "r1">> \notin DOMAIN model_relationships

----------------------------------------------------------------------------
(* Properties checked under SpecRace *)

\* C35: whatever the interleaving of a concurrent upsert_model_relationship and
\* delete_model_element on the same model, no committed state holds a
\* relationship whose source or target element does not exist
C35_NoDanglingAfterRace ==
    \A c \in DOMAIN pc :
       (local[c].op = "upsert_model_relationship" /\ pc[c] = "done"
          /\ local[c].returned.status = "ok") =>
          \A k \in DOMAIN model_relationships :
             k[1] = local[c].model_id =>
                /\ <<k[1], model_relationships[k].source_element_id>>
                      \in DOMAIN model_elements
                /\ <<k[1], model_relationships[k].target_element_id>>
                      \in DOMAIN model_elements

----------------------------------------------------------------------------
(* Properties checked under SpecTagRace *)

\* C36: two concurrent add_tag calls with different keys on the same element
\* that both report success leave both keys in the element's tag map
C36_NoLostTag ==
    \A c \in DOMAIN pc, d \in DOMAIN pc :
       (/\ local[c].op = "add_element_tag" /\ local[d].op = "add_element_tag"
        /\ pc[c] = "done" /\ pc[d] = "done"
        /\ local[c].returned.status = "ok" /\ local[d].returned.status = "ok"
        /\ local[c].model_id = local[d].model_id /\ local[c].id = local[d].id
        /\ local[c].key # local[d].key) =>
          LET k == <<local[c].model_id, local[c].id>>
          IN /\ k \in DOMAIN model_elements
             /\ {local[c].key, local[d].key} \subseteq DOMAIN model_elements[k].tags

----------------------------------------------------------------------------
(* Properties checked under Spec: reuse of a model id *)

\* C37: create_model with the id of a model that delete_model has just deleted
\* succeeds and yields a model at version 1 with no element, relationship,
\* lock or version left over from the deleted model
C37_IdReusable ==
    [][(/\ result.op = "delete_model"
        /\ result.count = 1
        /\ result'.op = "create_model"
        /\ result'.model_id = result.model_id) =>
          LET m == result.model_id
          IN /\ result'.status # "error"
             /\ m \in DOMAIN models'
             /\ models'[m].current_version = 1
             /\ {k \in DOMAIN model_versions' : k[1] = m} = {<<m, 1>>}
             /\ {k \in DOMAIN model_elements' : k[1] = m} = {}
             /\ {k \in DOMAIN model_relationships' : k[1] = m} = {}
             /\ m \notin DOMAIN model_locks']_vars

----------------------------------------------------------------------------
(* Properties checked under SpecManagement *)

\* C38: once a create_model of the management tool has succeeded, a further
\* create_model without model_id succeeds as well and yields a second,
\* distinct model at version 1
C38_CreateWithoutModelId ==
    [][\A payload \in ManagementCreatePayloads :
          (/\ payload.model_id = None
           /\ payload.name # None
           /\ CURRENT_MODEL # None
           /\ management_create_model(payload)) =>
             /\ result'.status = "ok"
             /\ result'.id # CURRENT_MODEL[1]
             /\ result'.id \in DOMAIN models'
             /\ models'[result'.id].current_version = 1]_vars

\* C39: a key defined with is_tag = true stays a tag key when its definition is
\* issued again by define_attribute of the management tool, so that add_tag
\* with the key still succeeds
C39_TagStatusPersists ==
    [][\A payload \in ManagementDefinePayloads :
          (/\ payload_model_id(payload) # None
           /\ payload.key # None
           /\ _resolve_tag_key(model_attribute_definitions, payload_model_id(payload)[1],
                               payload.target_type, payload.key[1])
           /\ management_define_attribute(payload)) =>
             _resolve_tag_key(model_attribute_definitions', payload_model_id(payload)[1],
                              payload.target_type, payload.key[1])]_vars

============================================================================
